---- MODULE Spec2Model ----
(***************************************************************************)
(* neuro-chat-bot: the conversation engine (internal/usecases), the entity *)
(* model (internal/domain), the stored document (adapters/persistence),    *)
(* the model gateway (adapters/llm) and the Telegram controller            *)
(* (adapters/telegram), as a state machine.                                *)
(*                                                                         *)
(* A Go string is a sequence of tokens: a token is an opaque piece of text *)
(* or one of the two placeholders.  strings.ReplaceAll works on tokens.    *)
(* Characters is a 1-based sequence; CurrentCharacterID keeps Go's 0-based *)
(* value.  The users collection is followed for one user id.               *)
(***************************************************************************)
EXTENDS Integers, Sequences, FiniteSets, TLC

\* ------------------------------------------------------------------ bounds
MaxLimit == 2
MaxCalls == 3
MaxChars == 3
MaxFaults == 2
MaxEvents == 2

\* ------------------------------------------------------- the entity model
System == 0
Assistant == 1
UserRole == 2

UserTok == "{{user}}"
CharTok == "{{char}}"

DefaultName == <<"Default">>
DefaultGreeting == <<"Hello! How can I help you today?">>
DefaultPrompt == <<"You are a helpful AI assistant.">>

TheUserID == 1

RoleString(r) ==
  CASE r = System -> "system"
    [] r = Assistant -> "assistant"
    [] r = UserRole -> "user"
    [] OTHER -> "user"

NewChatMessage(role, content) ==
  [ERole |-> role, Role |-> RoleString(role), Content |-> content]

NewCharacterPreset ==
  [ID |-> 0, Name |-> DefaultName, Greeting |-> DefaultGreeting,
   Prompt |-> DefaultPrompt, Chat |-> <<>>]

\* A new user is built without its default character.
NewUser_NoCharacter(userID, username, now) ==
  [ID |-> userID, UserName |-> username, UserDescription |-> <<>>,
   Characters |-> <<>>, CurrentCharacterID |-> 0,
   RequestTime |-> now, PendingCommand |-> "", LastMessageID |-> 0]

NewUser(userID, username, now) ==
  [ID |-> userID, UserName |-> username, UserDescription |-> <<>>,
   Characters |-> <<NewCharacterPreset>>, CurrentCharacterID |-> 0,
   RequestTime |-> now, PendingCommand |-> "", LastMessageID |-> 0]

IndexInRange(u) ==
  u.CurrentCharacterID >= 0 /\ u.CurrentCharacterID < Len(u.Characters)

\* The user after a call of GetCurrentCharacter: only an empty Characters is
\* rebuilt; an out-of-range index over a non-empty Characters is left as it is.
GetCurrentCharacter(u) ==
  IF IndexInRange(u) THEN u
  ELSE IF Len(u.Characters) = 0
       THEN [u EXCEPT !.Characters = <<NewCharacterPreset>>, !.CurrentCharacterID = 0]
       ELSE u

\* The position in GetCurrentCharacter(u).Characters of the preset it returns.
CurrentPos(u) == IF IndexInRange(u) THEN u.CurrentCharacterID + 1 ELSE 1

CurrentCharacter(u) == GetCurrentCharacter(u).Characters[CurrentPos(u)]

ChangeCurrentCharacter(u, index) ==
  IF index >= 0 /\ index < Len(u.Characters)
  THEN [u EXCEPT !.CurrentCharacterID = index]
  ELSE u

LastN(s, n) == SubSeq(s, Len(s) - n + 1, Len(s))

\* A trim that keeps the oldest messages instead of the newest.
EnsureChatHistoryLimit_KeepOldest(u, charIndex, lim) ==
  IF charIndex >= 0 /\ charIndex < Len(u.Characters)
  THEN IF Len(u.Characters[charIndex + 1].Chat) > lim
       THEN [u EXCEPT !.Characters[charIndex + 1].Chat = SubSeq(@, 1, lim)]
       ELSE u
  ELSE u

EnsureChatHistoryLimit(u, charIndex, lim) ==
  IF charIndex >= 0 /\ charIndex < Len(u.Characters)
  THEN IF Len(u.Characters[charIndex + 1].Chat) > lim
       THEN [u EXCEPT !.Characters[charIndex + 1].Chat = LastN(@, lim)]
       ELSE u
  ELSE u

RECURSIVE ReplaceAll(_, _, _)
ReplaceAll(s, tok, repl) ==
  IF s = <<>> THEN <<>>
  ELSE IF Head(s) = tok THEN repl \o ReplaceAll(Tail(s), tok, repl)
       ELSE <<Head(s)>> \o ReplaceAll(Tail(s), tok, repl)

\* The two passes in the other order.
UserReplacePlaceholders_CharFirst(u, input) ==
  ReplaceAll(ReplaceAll(input, CharTok, CurrentCharacter(u).Name), UserTok, u.UserName)

UserReplacePlaceholders(u, input) ==
  ReplaceAll(ReplaceAll(input, UserTok, u.UserName), CharTok, CurrentCharacter(u).Name)

CharReplacePlaceholders(cp, input) == ReplaceAll(input, CharTok, cp.Name)

\* A system message is emitted for an empty prompt too.
GetChatMessagesForModel_AlwaysSystem(cp) ==
  <<NewChatMessage(System, cp.Prompt)>> \o cp.Chat

GetChatMessagesForModel(cp) ==
  (IF cp.Prompt # <<>> THEN <<NewChatMessage(System, cp.Prompt)>> ELSE <<>>) \o cp.Chat

\* ------------------------------------------- the stored document (bson)
\* ERole carries bson:"-": a stored message holds Role and Content only, and a
\* decoded message has ERole at its zero value.
NoDoc == [absent |-> TRUE]
NoUser == [nil |-> TRUE]

MessageToDoc(m) == [Role |-> m.Role, Content |-> m.Content]
MessageFromDoc(md) == [ERole |-> 0, Role |-> md.Role, Content |-> md.Content]

CharacterToDoc(cp) ==
  [cp EXCEPT !.Chat = [i \in 1..Len(cp.Chat) |-> MessageToDoc(cp.Chat[i])]]
CharacterFromDoc(cd) ==
  [cd EXCEPT !.Chat = [i \in 1..Len(cd.Chat) |-> MessageFromDoc(cd.Chat[i])]]

ToDoc(u) ==
  [u EXCEPT !.Characters = [i \in 1..Len(u.Characters) |-> CharacterToDoc(u.Characters[i])]]
FromDoc(d) ==
  [d EXCEPT !.Characters = [i \in 1..Len(d.Characters) |-> CharacterFromDoc(d.Characters[i])]]

\* The pendingCommand of the stored document; a user without a document is
\* created with none.
StoredPending(d) == IF d = NoDoc THEN "" ELSE d.PendingCommand

\* A save that reports an error after the write was applied.
SaveUser_WritesOnError(d, u, ok) == ToDoc(u)

\* The collection after SaveUser(user): an upsert that sets every field.
SaveUser_FirstWriterWins(d, u, ok) == IF ok /\ d = NoDoc THEN ToDoc(u) ELSE d
SaveUser(d, u, ok) == IF ok THEN ToDoc(u) ELSE d

LoadUser(d, ok) ==
  IF ~ok THEN [err |-> TRUE, found |-> FALSE, user |-> NoUser]
  ELSE IF d = NoDoc THEN [err |-> FALSE, found |-> FALSE, user |-> NoUser]
       ELSE [err |-> FALSE, found |-> TRUE, user |-> FromDoc(d)]

\* ------------------------------------------------------ the model gateway
StatusOK == 200

\* What the gateway puts on the wire for one message.
ApiMessage(m) == [Role |-> m.Role, Content |-> m.Content]

\* A gateway that takes every 2xx status for success.
GetModelResponse_Any2xx(resp) ==
  IF ~resp.sent THEN [err |-> TRUE, content |-> <<>>]
  ELSE IF resp.status < 200 \/ resp.status > 299 THEN [err |-> TRUE, content |-> <<>>]
  ELSE IF Len(resp.choices) > 0 THEN [err |-> FALSE, content |-> resp.choices[1]]
  ELSE [err |-> TRUE, content |-> <<>>]

\* resp: [sent |-> the HTTP exchange took place, status, choices].
GetModelResponse(resp) ==
  IF ~resp.sent THEN [err |-> TRUE, content |-> <<>>]
  ELSE IF resp.status # StatusOK THEN [err |-> TRUE, content |-> <<>>]
  ELSE IF Len(resp.choices) > 0 THEN [err |-> FALSE, content |-> resp.choices[1]]
  ELSE [err |-> TRUE, content |-> <<>>]

\* ------------------------------------------------ the conversation engine
applyPlaceholdersToMessages(messages, u) ==
  [i \in 1..Len(messages) |->
     LET msg == messages[i]
         c1 == UserReplacePlaceholders(u, msg.Content)
         c2 == IF msg.ERole # System
               THEN CharReplacePlaceholders(CurrentCharacter(u), c1)
               ELSE c1
     IN NewChatMessage(msg.ERole, c2)]

AppendToCurrentChat(u, msg) ==
  [GetCurrentCharacter(u) EXCEPT !.Characters[CurrentPos(u)].Chat = Append(@, msg)]

\* The first save's error is logged and the call goes on to the gateway.
RespondUserTurn_IgnoreSaveError(u, d, text, lim, ok) ==
  LET appended == AppendToCurrentChat(u, NewChatMessage(UserRole, text))
      trimmed == EnsureChatHistoryLimit(appended, u.CurrentCharacterID, lim)
  IN [user |-> trimmed, db |-> SaveUser(d, trimmed, ok),
      err |-> IF ok THEN "none" ELSE "persist",
      steps |-> <<"append_user", "trim", IF ok THEN "persist" ELSE "persist_failed">>,
      next |-> "resp_model"]

\* The append is rolled back when the first save fails.
RespondUserTurn_RollBack(u, d, text, lim, ok) ==
  LET appended == AppendToCurrentChat(u, NewChatMessage(UserRole, text))
      trimmed == EnsureChatHistoryLimit(appended, u.CurrentCharacterID, lim)
  IN [user |-> IF ok THEN trimmed ELSE u, db |-> SaveUser(d, trimmed, ok),
      err |-> IF ok THEN "none" ELSE "persist",
      steps |-> <<"append_user", "trim", IF ok THEN "persist" ELSE "persist_failed">>,
      next |-> IF ok THEN "resp_model" ELSE "ret"]

\* The chat is saved as appended and trimmed after that.
RespondUserTurn_SaveUntrimmed(u, d, text, lim, ok) ==
  LET appended == AppendToCurrentChat(u, NewChatMessage(UserRole, text))
      trimmed == EnsureChatHistoryLimit(appended, u.CurrentCharacterID, lim)
  IN [user |-> trimmed, db |-> SaveUser(d, appended, ok),
      err |-> IF ok THEN "none" ELSE "persist",
      steps |-> <<"append_user", "trim", IF ok THEN "persist" ELSE "persist_failed">>,
      next |-> IF ok THEN "resp_model" ELSE "ret"]

\* GetModelResponseForUser up to its first SaveUser (lines 90-99).
RespondUserTurn(u, d, text, lim, ok) ==
  LET appended == AppendToCurrentChat(u, NewChatMessage(UserRole, text))
      trimmed == EnsureChatHistoryLimit(appended, u.CurrentCharacterID, lim)
  IN [user |-> trimmed, db |-> SaveUser(d, trimmed, ok),
      err |-> IF ok THEN "none" ELSE "persist",
      steps |-> <<"append_user", "trim", IF ok THEN "persist" ELSE "persist_failed">>,
      next |-> IF ok THEN "resp_model" ELSE "ret"]

\* The request GetModelResponseForUser hands to the gateway (lines 101-103).
RespondRequest(u) ==
  applyPlaceholdersToMessages(GetChatMessagesForModel(CurrentCharacter(u)), u)

\* The gateway's error is logged and the call goes on to append the reply.
RespondModelCall_NoReturn(u, resp) ==
  LET r == GetModelResponse(resp)
  IN [err |-> IF r.err THEN "model" ELSE "none", reply |-> r.content,
      steps |-> <<IF r.err THEN "gateway_failed" ELSE "gateway">>,
      next |-> "resp_finish"]

\* A failed gateway call is made again.
RespondModelCall_Retry(u, resp) ==
  LET r == GetModelResponse(resp)
  IN [err |-> IF r.err THEN "model" ELSE "none", reply |-> r.content,
      steps |-> <<IF r.err THEN "gateway_failed" ELSE "gateway">>,
      next |-> IF r.err THEN "resp_model" ELSE "resp_finish"]

\* The gateway call and its outcome (lines 116-120).
RespondModelCall(u, resp) ==
  LET r == GetModelResponse(resp)
  IN [err |-> IF r.err THEN "model" ELSE "none", reply |-> r.content,
      steps |-> <<IF r.err THEN "gateway_failed" ELSE "gateway">>,
      next |-> IF r.err THEN "ret" ELSE "resp_finish"]

\* The user is saved before the reply is appended.
RespondAssistantTurn_SaveBeforeAppend(u, d, currentChatIndex, response, lim, ok) ==
  LET appended == AppendToCurrentChat(u, NewChatMessage(Assistant, response))
      trimmed == EnsureChatHistoryLimit(appended, currentChatIndex, lim)
  IN [user |-> trimmed, db |-> SaveUser(d, u, ok),
      err |-> IF ok THEN "none" ELSE "persist",
      reply |-> IF ok THEN response ELSE <<>>,
      steps |-> <<"append_assistant", "trim", IF ok THEN "persist" ELSE "persist_failed">>]

\* The reply is returned although the second save failed.
RespondAssistantTurn_ReturnsReply(u, d, currentChatIndex, response, lim, ok) ==
  LET appended == AppendToCurrentChat(u, NewChatMessage(Assistant, response))
      trimmed == EnsureChatHistoryLimit(appended, currentChatIndex, lim)
  IN [user |-> trimmed, db |-> SaveUser(d, trimmed, ok),
      err |-> "none",
      reply |-> response,
      steps |-> <<"append_assistant", "trim", IF ok THEN "persist" ELSE "persist_failed">>]

\* GetModelResponseForUser after the gateway answered (lines 122-130).
RespondAssistantTurn(u, d, currentChatIndex, response, lim, ok) ==
  LET appended == AppendToCurrentChat(u, NewChatMessage(Assistant, response))
      trimmed == EnsureChatHistoryLimit(appended, currentChatIndex, lim)
  IN [user |-> trimmed, db |-> SaveUser(d, trimmed, ok),
      err |-> IF ok THEN "none" ELSE "persist",
      reply |-> IF ok THEN response ELSE <<>>,
      steps |-> <<"append_assistant", "trim", IF ok THEN "persist" ELSE "persist_failed">>]

\* The new character keeps the ID its constructor gave it.
AddCharacter_KeepsID(u, d, newChar, ok) ==
  LET added == [u EXCEPT !.Characters = Append(@, newChar)]
      switched == ChangeCurrentCharacter(added, Len(added.Characters) - 1)
  IN [user |-> switched, db |-> SaveUser(d, switched, ok),
      err |-> IF ok THEN "none" ELSE "persist"]

\* The current character is set one past the character added.
AddCharacter_IndexPastEnd(u, d, newChar, ok) ==
  LET withID == [newChar EXCEPT !.ID = Len(u.Characters)]
      added == [u EXCEPT !.Characters = Append(@, withID)]
      switched == [added EXCEPT !.CurrentCharacterID = Len(added.Characters)]
  IN [user |-> switched, db |-> SaveUser(d, switched, ok),
      err |-> IF ok THEN "none" ELSE "persist"]

AddCharacter(u, d, newChar, ok) ==
  LET withID == [newChar EXCEPT !.ID = Len(u.Characters)]
      added == [u EXCEPT !.Characters = Append(@, withID)]
      switched == ChangeCurrentCharacter(added, Len(added.Characters) - 1)
  IN [user |-> switched, db |-> SaveUser(d, switched, ok),
      err |-> IF ok THEN "none" ELSE "persist"]

\* The chat of every character is emptied.
ClearChatHistory_AllCharacters(u, d, ok) ==
  LET g == GetCurrentCharacter(u)
      cleared == [g EXCEPT !.Characters =
                    [i \in 1..Len(g.Characters) |-> [g.Characters[i] EXCEPT !.Chat = <<>>]]]
  IN [user |-> cleared, db |-> SaveUser(d, cleared, ok),
      err |-> IF ok THEN "none" ELSE "persist"]

ClearChatHistory(u, d, ok) ==
  LET cleared == [GetCurrentCharacter(u) EXCEPT !.Characters[CurrentPos(u)].Chat = <<>>]
  IN [user |-> cleared, db |-> SaveUser(d, cleared, ok),
      err |-> IF ok THEN "none" ELSE "persist"]

PropertyNames == {"Prompt", "UserName", "UserDescription", "CharacterName", "Greeting"}

\* An unknown property name falls through to the save.
UpdateUserProperty_SavesUnknown(u, d, prop, value, ok) ==
  LET g == GetCurrentCharacter(u)
      p == CurrentPos(u)
      set == CASE prop = "Prompt" ->
                    [g EXCEPT !.Characters[p].Prompt = UserReplacePlaceholders(u, value)]
               [] prop = "UserName" -> [u EXCEPT !.UserName = value]
               [] prop = "UserDescription" ->
                    [g EXCEPT !.UserDescription = UserReplacePlaceholders(u, value)]
               [] prop = "CharacterName" -> [g EXCEPT !.Characters[p].Name = value]
               [] prop = "Greeting" ->
                    [g EXCEPT !.Characters[p].Greeting = UserReplacePlaceholders(u, value)]
               [] OTHER -> u
  IN [user |-> set, db |-> SaveUser(d, set, ok),
      err |-> IF ok THEN "none" ELSE "persist"]

\* The prompt is stored as it was typed.
UpdateUserProperty_VerbatimPrompt(u, d, prop, value, ok) ==
  LET g == GetCurrentCharacter(u)
      p == CurrentPos(u)
      set == CASE prop = "Prompt" -> [g EXCEPT !.Characters[p].Prompt = value]
               [] prop = "UserName" -> [u EXCEPT !.UserName = value]
               [] prop = "UserDescription" ->
                    [g EXCEPT !.UserDescription = UserReplacePlaceholders(u, value)]
               [] prop = "CharacterName" -> [g EXCEPT !.Characters[p].Name = value]
               [] prop = "Greeting" ->
                    [g EXCEPT !.Characters[p].Greeting = UserReplacePlaceholders(u, value)]
               [] OTHER -> u
  IN IF prop \notin PropertyNames
     THEN [user |-> u, db |-> d, err |-> "property"]
     ELSE [user |-> set, db |-> SaveUser(d, set, ok),
           err |-> IF ok THEN "none" ELSE "persist"]

UpdateUserProperty(u, d, prop, value, ok) ==
  LET g == GetCurrentCharacter(u)
      p == CurrentPos(u)
      set == CASE prop = "Prompt" ->
                    [g EXCEPT !.Characters[p].Prompt = UserReplacePlaceholders(u, value)]
               [] prop = "UserName" -> [u EXCEPT !.UserName = value]
               [] prop = "UserDescription" ->
                    [g EXCEPT !.UserDescription = UserReplacePlaceholders(u, value)]
               [] prop = "CharacterName" -> [g EXCEPT !.Characters[p].Name = value]
               [] prop = "Greeting" ->
                    [g EXCEPT !.Characters[p].Greeting = UserReplacePlaceholders(u, value)]
               [] OTHER -> u
  IN IF prop \notin PropertyNames
     THEN [user |-> u, db |-> d, err |-> "property"]
     ELSE [user |-> set, db |-> SaveUser(d, set, ok),
           err |-> IF ok THEN "none" ELSE "persist"]

\* The index is not checked before the save.
ChangeCharacter_NoRangeCheck(u, d, index, ok) ==
  LET switched == ChangeCurrentCharacter(u, index)
  IN [user |-> switched, db |-> SaveUser(d, switched, ok),
      err |-> IF ok THEN "none" ELSE "persist"]

ChangeCharacter(u, d, index, ok) ==
  IF index < 0 \/ index >= Len(u.Characters)
  THEN [user |-> u, db |-> d, err |-> "index"]
  ELSE LET switched == ChangeCurrentCharacter(u, index)
       IN [user |-> switched, db |-> SaveUser(d, switched, ok),
           err |-> IF ok THEN "none" ELSE "persist"]

\* ------------------------------------------------------------ the state
Handlers == {1, 2}

\* What a caller may pass in.
DisplayNames == {<<"alice">>, <<"bob">>}
Texts == {<<"hi">>, <<"yo">>}
Replies == {<<"sure">>}
PropertyArgs == PropertyNames \cup {"Nickname"}
Values == {<<>>, <<"v">>, <<UserTok, "&", CharTok>>}
NoResponse == [sent |-> FALSE, status |-> 0, choices |-> <<>>]
GoodResponses == {[sent |-> TRUE, status |-> StatusOK, choices |-> <<r>>] : r \in Replies}
BadResponses ==
  {[sent |-> FALSE, status |-> 0, choices |-> <<>>],
   [sent |-> TRUE, status |-> 500, choices |-> <<>>],
   [sent |-> TRUE, status |-> StatusOK, choices |-> <<>>]}

VARIABLES
  limit,      \* UserInteractor.chatHistoryLimit
  clock,      \* calls of the caller, or updates received, so far; time.Now() reads it
  faults,     \* collaborator calls that failed so far
  db,         \* the stored document of the user, or NoDoc
  pc,         \* per handler: its position
  usr,        \* per handler: the *domain.User it holds, or NoUser
  op,         \* per handler: the engine operation in progress or last returned
  txt,        \* per handler: the string argument of that operation
  chatIdx,    \* per handler: currentChatIndex of GetModelResponseForUser
  response,   \* per handler: the gateway's answer (line 116)
  reply,      \* per handler: the operation's string result
  err,        \* per handler: the operation's error ("none" = nil)
  trace,      \* per handler: the observable steps of the operation so far
  pre,        \* per handler: the user and the document when the operation began
  modelMsgs,  \* per handler: messagesForModel as built at line 102
  gwReq,      \* per handler: the messages of the last gateway request
  gwResp,     \* per handler: the HTTP exchange that answered that request
  gwCalls,    \* per handler: gateway requests made by the operation
  saves,      \* per handler: successful SaveUser calls of the operation
  prevCall,   \* per handler: the operation before this one and how it ended
  tgNext,     \* the MessageID Telegram gives the next message the bot sends
  input,      \* per handler: message.Text of the update it handles
  route,      \* per handler: how the update was routed
  out,        \* per handler: the response string of handleCommand / handleTextMessage
  sent,       \* per handler: the texts it passed to sendMessage, in order
  prevUpdate, \* per handler: the update it handled before this one and how it ended,
              \* and the stored pendingCommand when this one arrived
  main        \* func main: where it is, the environment it was started in, and
              \* what ended the process, if anything did

frame == <<op, txt, chatIdx, response, reply, err, trace, pre, modelMsgs, gwReq, gwResp,
           gwCalls, saves, prevCall>>
bot == <<tgNext, input, route, out, sent, prevUpdate>>
vars == <<main, limit, clock, faults, db, pc, usr, frame, bot>>

\* ------------------------------------------------------------ the process
\* The environment variables main requires, in the order it reads them.
RequiredConfig == <<"MONGO_URI", "MONGO_DB_NAME", "TELEGRAM_BOT_TOKEN", "LLAMA_BASE_URL">>
ConfigNames == {RequiredConfig[i] : i \in 1..Len(RequiredConfig)}

\* logger.go: the levels are bit flags, a current level is a set of them.
InfoLevel == "INFO"
ErrorLevel == "ERROR"
DebugInfo == "DEBUG"
WarningLevel == "WARNING"
FatalLevel == "FATAL"
AllLevels == {InfoLevel, ErrorLevel, DebugInfo, WarningLevel, FatalLevel}

\* ConsoleLogger.Log: TRUE when the call ends the process with os.Exit(1).
Log(currentLogLevel, level) == level \in currentLogLevel /\ level = FatalLevel

\* main has built every collaborator and is polling for updates.
Running == [at |-> "polling", dotenv |-> TRUE, set |-> ConfigNames, checked |-> Len(RequiredConfig),
            cause |-> "none"]

\* The collection outlives the process: at start it holds no document of the
\* user, or the one an earlier run under the same limit left after creating
\* the user and answering one message.
EarlierRun(lim) ==
  LET created == NewUser(TheUserID, <<"alice">>, 0)
      asked == RespondUserTurn(created, NoDoc, <<"hi">>, lim, TRUE).user
  IN RespondAssistantTurn(asked, NoDoc, 0, <<"sure">>, lim, TRUE).db

NoCall == [op |-> "none", txt |-> <<>>, err |-> "none", gw |-> 0]
NoUpdate == [input |-> <<>>, route |-> "none", err |-> "none", pending |-> "", stored |-> ""]

Init ==
  /\ main = Running
  /\ limit \in 0..MaxLimit
  /\ clock = 0
  /\ faults = 0
  /\ db \in {NoDoc, EarlierRun(limit)}
  /\ pc = [h \in Handlers |-> "idle"]
  /\ usr = [h \in Handlers |-> NoUser]
  /\ op = [h \in Handlers |-> "none"]
  /\ txt = [h \in Handlers |-> <<>>]
  /\ chatIdx = [h \in Handlers |-> 0]
  /\ response = [h \in Handlers |-> <<>>]
  /\ reply = [h \in Handlers |-> <<>>]
  /\ err = [h \in Handlers |-> "none"]
  /\ trace = [h \in Handlers |-> <<>>]
  /\ pre = [h \in Handlers |-> [usr |-> NoUser, db |-> NoDoc]]
  /\ modelMsgs = [h \in Handlers |-> <<>>]
  /\ gwReq = [h \in Handlers |-> <<>>]
  /\ gwResp = [h \in Handlers |-> NoResponse]
  /\ gwCalls = [h \in Handlers |-> 0]
  /\ saves = [h \in Handlers |-> 0]
  /\ prevCall = [h \in Handlers |-> NoCall]
  /\ tgNext = 1
  /\ input = [h \in Handlers |-> <<>>]
  /\ route = [h \in Handlers |-> "none"]
  /\ out = [h \in Handlers |-> <<>>]
  /\ sent = [h \in Handlers |-> <<>>]
  /\ prevUpdate = [h \in Handlers |-> NoUpdate]

\* Every handler at rest, nothing called, received or sent yet.
Fresh ==
  /\ clock = 0
  /\ faults = 0
  /\ pc = [h \in Handlers |-> "idle"]
  /\ op = [h \in Handlers |-> "none"]
  /\ txt = [h \in Handlers |-> <<>>]
  /\ chatIdx = [h \in Handlers |-> 0]
  /\ response = [h \in Handlers |-> <<>>]
  /\ reply = [h \in Handlers |-> <<>>]
  /\ err = [h \in Handlers |-> "none"]
  /\ trace = [h \in Handlers |-> <<>>]
  /\ pre = [h \in Handlers |-> [usr |-> NoUser, db |-> NoDoc]]
  /\ modelMsgs = [h \in Handlers |-> <<>>]
  /\ gwReq = [h \in Handlers |-> <<>>]
  /\ gwResp = [h \in Handlers |-> NoResponse]
  /\ gwCalls = [h \in Handlers |-> 0]
  /\ saves = [h \in Handlers |-> 0]
  /\ prevCall = [h \in Handlers |-> NoCall]
  /\ tgNext = 1
  /\ input = [h \in Handlers |-> <<>>]
  /\ route = [h \in Handlers |-> "none"]
  /\ out = [h \in Handlers |-> <<>>]
  /\ sent = [h \in Handlers |-> <<>>]
  /\ prevUpdate = [h \in Handlers |-> NoUpdate]

\* The outcomes a collaborator call may have: it may fail while the run has
\* failures left.
Oks == IF faults < MaxFaults THEN BOOLEAN ELSE {TRUE}
HttpResponses == IF faults < MaxFaults THEN GoodResponses \cup BadResponses ELSE GoodResponses
Fault(failed) == faults' = faults + (IF failed THEN 1 ELSE 0)

\* A call of an engine operation begins: its frame is fresh.  An operation
\* with a single repository call is one step: it begins at "ret" with its
\* outcome e, its successful saves n and its steps.
Begin(h, o, t, first, e, n, steps) ==
  /\ op' = [op EXCEPT ![h] = o]
  /\ txt' = [txt EXCEPT ![h] = t]
  /\ pc' = [pc EXCEPT ![h] = first]
  /\ response' = [response EXCEPT ![h] = <<>>]
  /\ reply' = [reply EXCEPT ![h] = <<>>]
  /\ err' = [err EXCEPT ![h] = e]
  /\ trace' = [trace EXCEPT ![h] = steps]
  /\ pre' = [pre EXCEPT ![h] = [usr |-> usr[h], db |-> db]]
  /\ modelMsgs' = [modelMsgs EXCEPT ![h] = <<>>]
  /\ gwReq' = [gwReq EXCEPT ![h] = <<>>]
  /\ gwResp' = [gwResp EXCEPT ![h] = NoResponse]
  /\ gwCalls' = [gwCalls EXCEPT ![h] = 0]
  /\ saves' = [saves EXCEPT ![h] = n]
  /\ chatIdx' = [chatIdx EXCEPT ![h] = 0]
  /\ UNCHANGED prevCall

\* ------------------------------------------------------ GetOrCreateUser
\* LoadUser and what follows it up to the next repository call (lines 59-80).
GetOrCreateLoad(h) ==
  /\ pc[h] = "goc_load"
  /\ \E ok \in Oks :
       LET r == LoadUser(db, ok) IN
       /\ usr' = [usr EXCEPT ![h] =
            IF r.err THEN NoUser
            ELSE IF ~r.found THEN NewUser(TheUserID, txt[h], clock)
            ELSE IF r.user.UserName # txt[h] THEN [r.user EXCEPT !.UserName = txt[h]]
            ELSE [r.user EXCEPT !.RequestTime = clock]]
       /\ err' = [err EXCEPT ![h] = IF r.err THEN "load" ELSE "none"]
       /\ pc' = [pc EXCEPT ![h] =
            IF r.err THEN "ret"
            ELSE IF ~r.found THEN "goc_save_new"
            ELSE IF r.user.UserName # txt[h] THEN "goc_save_name"
            ELSE "ret"]
       /\ trace' = [trace EXCEPT ![h] = Append(@, IF r.err THEN "load_failed" ELSE "load")]
       /\ Fault(~ok)
  /\ UNCHANGED <<main, limit, clock, db, op, txt, chatIdx, response, reply, pre, modelMsgs,
                 gwReq, gwResp, gwCalls, saves, prevCall, bot>>

\* The save of a new user (lines 65-69, 79).
GetOrCreateSaveNew(h) ==
  /\ pc[h] = "goc_save_new"
  /\ \E ok \in Oks :
       /\ db' = SaveUser(db, usr[h], ok)
       /\ usr' = [usr EXCEPT ![h] = IF ok THEN [@ EXCEPT !.RequestTime = clock] ELSE NoUser]
       /\ err' = [err EXCEPT ![h] = IF ok THEN "none" ELSE "persist"]
       /\ saves' = [saves EXCEPT ![h] = @ + (IF ok THEN 1 ELSE 0)]
       /\ trace' = [trace EXCEPT ![h] = Append(@, IF ok THEN "persist" ELSE "persist_failed")]
       /\ Fault(~ok)
  /\ pc' = [pc EXCEPT ![h] = "ret"]
  /\ UNCHANGED <<main, limit, clock, op, txt, chatIdx, response, reply, pre, modelMsgs,
                 gwReq, gwResp, gwCalls, prevCall, bot>>

\* A failed save of the changed username fails the call.
GetOrCreateSaveName_FailsCall(h) ==
  /\ pc[h] = "goc_save_name"
  /\ \E ok \in Oks :
       /\ db' = SaveUser(db, usr[h], ok)
       /\ saves' = [saves EXCEPT ![h] = @ + (IF ok THEN 1 ELSE 0)]
       /\ trace' = [trace EXCEPT ![h] = Append(@, IF ok THEN "persist" ELSE "persist_failed")]
       /\ usr' = [usr EXCEPT ![h] = IF ok THEN [@ EXCEPT !.RequestTime = clock] ELSE NoUser]
       /\ err' = [err EXCEPT ![h] = IF ok THEN "none" ELSE "persist"]
       /\ Fault(~ok)
  /\ pc' = [pc EXCEPT ![h] = "ret"]
  /\ UNCHANGED <<main, limit, clock, op, txt, chatIdx, response, reply, pre, modelMsgs,
                 gwReq, gwResp, gwCalls, prevCall, bot>>

\* The save of a changed username; its failure is only logged (lines 72-79).
GetOrCreateSaveName(h) ==
  /\ pc[h] = "goc_save_name"
  /\ \E ok \in Oks :
       /\ db' = SaveUser(db, usr[h], ok)
       /\ saves' = [saves EXCEPT ![h] = @ + (IF ok THEN 1 ELSE 0)]
       /\ trace' = [trace EXCEPT ![h] = Append(@, IF ok THEN "persist" ELSE "persist_failed")]
       /\ Fault(~ok)
  /\ usr' = [usr EXCEPT ![h] = [@ EXCEPT !.RequestTime = clock]]
  /\ err' = [err EXCEPT ![h] = "none"]
  /\ pc' = [pc EXCEPT ![h] = "ret"]
  /\ UNCHANGED <<main, limit, clock, op, txt, chatIdx, response, reply, pre, modelMsgs,
                 gwReq, gwResp, gwCalls, prevCall, bot>>

\* ----------------------------------------------- GetModelResponseForUser
RespondStart(h) ==
  /\ pc[h] = "resp_start"
  /\ \E ok \in Oks :
       LET r == RespondUserTurn(usr[h], db, txt[h], limit, ok) IN
       /\ usr' = [usr EXCEPT ![h] = r.user]
       /\ db' = r.db
       /\ err' = [err EXCEPT ![h] = r.err]
       /\ pc' = [pc EXCEPT ![h] = r.next]
       /\ trace' = [trace EXCEPT ![h] = @ \o r.steps]
       /\ saves' = [saves EXCEPT ![h] = @ + (IF ok THEN 1 ELSE 0)]
       /\ Fault(~ok)
  /\ chatIdx' = [chatIdx EXCEPT ![h] = usr[h].CurrentCharacterID]
  /\ UNCHANGED <<main, limit, clock, op, txt, response, reply, pre, modelMsgs, gwReq, gwResp,
                 gwCalls, prevCall, bot>>

\* The expanded messages are written back into the chat of the user.
RespondModel_ExpandsInPlace(h) ==
  /\ pc[h] = "resp_model"
  /\ \E resp \in HttpResponses :
       LET r == RespondModelCall(usr[h], resp) IN
       /\ response' = [response EXCEPT ![h] = r.reply]
       /\ gwResp' = [gwResp EXCEPT ![h] = resp]
       /\ err' = [err EXCEPT ![h] = r.err]
       /\ pc' = [pc EXCEPT ![h] = r.next]
       /\ trace' = [trace EXCEPT ![h] = @ \o r.steps]
       /\ Fault(resp \in BadResponses)
  /\ usr' = [usr EXCEPT ![h] =
       LET u == GetCurrentCharacter(@) IN
       [u EXCEPT !.Characters[CurrentPos(u)].Chat = applyPlaceholdersToMessages(@, u)]]
  /\ modelMsgs' = [modelMsgs EXCEPT ![h] = GetChatMessagesForModel(CurrentCharacter(usr[h]))]
  /\ gwReq' = [gwReq EXCEPT ![h] =
       LET msgs == RespondRequest(usr[h]) IN [i \in 1..Len(msgs) |-> ApiMessage(msgs[i])]]
  /\ gwCalls' = [gwCalls EXCEPT ![h] = @ + 1]
  /\ UNCHANGED <<main, limit, clock, db, op, txt, chatIdx, reply, pre, saves, prevCall, bot>>

RespondModel(h) ==
  /\ pc[h] = "resp_model"
  /\ \E resp \in HttpResponses :
       LET r == RespondModelCall(usr[h], resp) IN
       /\ response' = [response EXCEPT ![h] = r.reply]
       /\ gwResp' = [gwResp EXCEPT ![h] = resp]
       /\ err' = [err EXCEPT ![h] = r.err]
       /\ pc' = [pc EXCEPT ![h] = r.next]
       /\ trace' = [trace EXCEPT ![h] = @ \o r.steps]
       /\ Fault(resp \in BadResponses)
  /\ usr' = [usr EXCEPT ![h] = GetCurrentCharacter(@)]
  /\ modelMsgs' = [modelMsgs EXCEPT ![h] = GetChatMessagesForModel(CurrentCharacter(usr[h]))]
  /\ gwReq' = [gwReq EXCEPT ![h] =
       LET msgs == RespondRequest(usr[h]) IN [i \in 1..Len(msgs) |-> ApiMessage(msgs[i])]]
  /\ gwCalls' = [gwCalls EXCEPT ![h] = @ + 1]
  /\ UNCHANGED <<main, limit, clock, db, op, txt, chatIdx, reply, pre, saves, prevCall, bot>>

RespondFinish(h) ==
  /\ pc[h] = "resp_finish"
  /\ \E ok \in Oks :
       LET r == RespondAssistantTurn(usr[h], db, chatIdx[h], response[h], limit, ok) IN
       /\ usr' = [usr EXCEPT ![h] = r.user]
       /\ db' = r.db
       /\ err' = [err EXCEPT ![h] = r.err]
       /\ reply' = [reply EXCEPT ![h] = r.reply]
       /\ trace' = [trace EXCEPT ![h] = @ \o r.steps]
       /\ saves' = [saves EXCEPT ![h] = @ + (IF ok THEN 1 ELSE 0)]
       /\ Fault(~ok)
  /\ pc' = [pc EXCEPT ![h] = "ret"]
  /\ UNCHANGED <<main, limit, clock, op, txt, chatIdx, response, pre, modelMsgs, gwReq, gwResp,
                 gwCalls, prevCall, bot>>

EngineStep(h) ==
  \/ GetOrCreateLoad(h)
  \/ GetOrCreateSaveNew(h)
  \/ GetOrCreateSaveName(h)
  \/ RespondStart(h)
  \/ RespondModel(h)
  \/ RespondFinish(h)

\* --------------------------------------- a caller of the engine's operations
\* The caller holds one user value and calls the operations of
\* UserInteractorService on it, in any order and with any argument.
Indexes == -1..MaxChars

CanCall(h) == pc[h] = "idle" /\ clock < MaxCalls

CallGetOrCreateUser(h) ==
  /\ CanCall(h)
  /\ \E name \in DisplayNames :
       Begin(h, "GetOrCreateUser", name, "goc_load", "none", 0, <<>>)
  /\ clock' = clock + 1
  /\ UNCHANGED <<main, limit, faults, db, usr, bot>>

CallRespond(h) ==
  /\ CanCall(h) /\ usr[h] # NoUser
  /\ \E text \in Texts :
       Begin(h, "GetModelResponseForUser", text, "resp_start", "none", 0, <<>>)
  /\ clock' = clock + 1
  /\ UNCHANGED <<main, limit, faults, db, usr, bot>>

\* An operation with a single repository call, with result r.
Whole(h, o, t, r) ==
  /\ Begin(h, o, t, "ret", r.err, IF r.err = "none" THEN 1 ELSE 0,
           IF r.err \in {"property", "index"} THEN <<>>
           ELSE IF r.err = "none" THEN <<"persist">> ELSE <<"persist_failed">>)
  /\ usr' = [usr EXCEPT ![h] = r.user]
  /\ db' = r.db
  /\ Fault(r.err = "persist")
  /\ clock' = clock + 1
  /\ UNCHANGED <<main, limit, bot>>

CallAddCharacter(h) ==
  /\ CanCall(h) /\ usr[h] # NoUser
  /\ Len(usr[h].Characters) < MaxChars
  /\ \E ok \in Oks :
       Whole(h, "AddCharacter", <<>>, AddCharacter(usr[h], db, NewCharacterPreset, ok))

CallClearChatHistory(h) ==
  /\ CanCall(h) /\ usr[h] # NoUser
  /\ \E ok \in Oks :
       Whole(h, "ClearChatHistory", <<>>, ClearChatHistory(usr[h], db, ok))

CallUpdateUserProperty(h) ==
  /\ CanCall(h) /\ usr[h] # NoUser
  /\ \E prop \in PropertyArgs, value \in Values, ok \in Oks :
       Whole(h, prop, value, UpdateUserProperty(usr[h], db, prop, value, ok))

CallChangeCurrentCharacter(h) ==
  /\ CanCall(h) /\ usr[h] # NoUser
  /\ \E index \in Indexes, ok \in Oks :
       Whole(h, "ChangeCurrentCharacter", <<ToString(index)>>,
             ChangeCharacter(usr[h], db, index, ok))

\* The operation has returned; the caller is free to call again, and what the
\* finished call left in its frame is dropped.
Return(h) ==
  /\ pc[h] = "ret"
  /\ pc' = [pc EXCEPT ![h] = "idle"]
  /\ prevCall' = [prevCall EXCEPT ![h] =
       [op |-> op[h], txt |-> txt[h], err |-> err[h], gw |-> gwCalls[h]]]
  /\ op' = [op EXCEPT ![h] = "none"]
  /\ txt' = [txt EXCEPT ![h] = <<>>]
  /\ chatIdx' = [chatIdx EXCEPT ![h] = 0]
  /\ response' = [response EXCEPT ![h] = <<>>]
  /\ reply' = [reply EXCEPT ![h] = <<>>]
  /\ err' = [err EXCEPT ![h] = "none"]
  /\ trace' = [trace EXCEPT ![h] = <<>>]
  /\ pre' = [pre EXCEPT ![h] = [usr |-> NoUser, db |-> NoDoc]]
  /\ modelMsgs' = [modelMsgs EXCEPT ![h] = <<>>]
  /\ gwReq' = [gwReq EXCEPT ![h] = <<>>]
  /\ gwResp' = [gwResp EXCEPT ![h] = NoResponse]
  /\ gwCalls' = [gwCalls EXCEPT ![h] = 0]
  /\ saves' = [saves EXCEPT ![h] = 0]
  /\ UNCHANGED <<main, limit, clock, faults, db, usr, bot>>

Caller == 1

Next ==
  \/ CallGetOrCreateUser(Caller)
  \/ CallRespond(Caller)
  \/ CallAddCharacter(Caller)
  \/ CallClearChatHistory(Caller)
  \/ CallUpdateUserProperty(Caller)
  \/ CallChangeCurrentCharacter(Caller)
  \/ EngineStep(Caller)
  \/ Return(Caller)

Spec == Init /\ [][Next]_vars

\* ------------------------------------------------ the Telegram controller
FetchErrorText == <<"An error occurred while fetching your data. Please try again later.">>
ModelErrorText == <<"I'm sorry, I couldn't process your request. Please try again.">>
PendingErrorText == <<"An error occurred while processing your input. Please try again.">>
InvalidNumberText == <<"Invalid character number. Please enter a valid number from the list.">>
UnknownCommandText == <<"Unknown command. Use /menu to see available options.">>

Commands ==
  {"/start", "/menu", "/newchar", "/listchar", "/switchchar", "/setprompt", "/setgreeting",
   "/setcharname", "/setusername", "/setuserdesc", "/clearchat", "/charinfo"}
SlashTokens == Commands \cup {"/help"}
NumberTokens == {"0", "1", "2", "3"}

\* strings.HasPrefix(text, "/")
IsCommand(text) == Len(text) > 0 /\ text[1] \in SlashTokens

\* strconv.Atoi: err = TRUE when the input is no decimal integer; a sign is
\* accepted, a space is not.
Atoi(text) ==
  IF Len(text) = 1 /\ text[1] \in NumberTokens
  THEN [err |-> FALSE,
        val |-> CASE text[1] = "0" -> 0 [] text[1] = "1" -> 1
                  [] text[1] = "2" -> 2 [] OTHER -> 3]
  ELSE IF text = <<"+1">> THEN [err |-> FALSE, val |-> 1]
  ELSE IF text = <<"-1">> THEN [err |-> FALSE, val |-> 0 - 1]
  ELSE [err |-> TRUE, val |-> 0]

\* The tag a tag-setting command leaves in PendingCommand.
PendingTag(command) ==
  CASE command = "/switchchar" -> "switch_character"
    [] command = "/setprompt" -> "set_prompt"
    [] command = "/setgreeting" -> "set_greeting"
    [] command = "/setcharname" -> "set_character_name"
    [] command = "/setusername" -> "set_user_name"
    [] command = "/setuserdesc" -> "set_user_description"
    [] OTHER -> ""

TagPrompt(command) ==
  CASE command = "/switchchar" ->
         <<"Please enter the number of the character you want to switch to.">>
    [] command = "/setprompt" -> <<"Please enter the new prompt for the current character:">>
    [] command = "/setgreeting" -> <<"Please enter the new greeting for the current character:">>
    [] command = "/setcharname" -> <<"Please enter the new name for the current character:">>
    [] command = "/setusername" -> <<"Please enter your new username:">>
    [] OTHER -> <<"Please enter your new description:">>

RECURSIVE ListCharacters(_, _)
ListCharacters(u, i) ==
  IF i > Len(u.Characters) THEN <<>>
  ELSE <<ToString(i), ". ">> \o u.Characters[i].Name
       \o <<IF i - 1 = u.CurrentCharacterID THEN " (current)\n" ELSE " \n">>
       \o ListCharacters(u, i + 1)

\* The switch of handleCommand (lines 112-193) on a command string.
\* op / err: the engine operation the branch called and its error.
HandleCommandSwitch(u, d, command, lim, ok) ==
  LET plain(text) == [user |-> u, db |-> d, out |-> text, handled |-> TRUE,
                      op |-> "none", err |-> "none", failed |-> FALSE]
  IN
  IF command = <<"/start">> THEN
    plain(<<"Hello, ">> \o u.UserName \o <<"! I am your AI assistant. How can I help you today? You can use /menu to see available options.">>)
  ELSE IF command = <<"/menu">> THEN plain(<<"What would you like to do?">>)
  ELSE IF command = <<"/newchar">> THEN
    LET r == AddCharacter(u, d, NewCharacterPreset, ok)
    IN [user |-> r.user, db |-> r.db, handled |-> TRUE, op |-> "AddCharacter",
        err |-> r.err, failed |-> ~ok,
        out |-> IF r.err # "none" THEN <<"Failed to add new character.">>
                ELSE <<"New character '">> \o NewCharacterPreset.Name
                     \o <<"' added and set as current.">>]
  ELSE IF command = <<"/listchar">> THEN
    plain(IF Len(u.Characters) = 0
          THEN <<"You have no characters yet. Use /newchar to create one.">>
          ELSE <<"Your characters:\n">> \o ListCharacters(u, 1)
               \o <<"\nUse /switchchar <number> to change.">>)
  ELSE IF Len(command) = 1 /\ PendingTag(command[1]) # "" THEN
    LET tagged == [u EXCEPT !.PendingCommand = PendingTag(command[1])]
    IN [user |-> tagged, db |-> SaveUser(d, tagged, ok), handled |-> TRUE,
        op |-> "SaveUser", err |-> IF ok THEN "none" ELSE "persist", failed |-> ~ok,
        out |-> TagPrompt(command[1])]
  ELSE IF command = <<"/clearchat">> THEN
    LET r == ClearChatHistory(u, d, ok)
    IN [user |-> r.user, db |-> r.db, handled |-> TRUE, op |-> "ClearChatHistory",
        err |-> r.err, failed |-> ~ok,
        out |-> IF r.err # "none" THEN <<"Failed to clear chat history.">>
                ELSE <<"Chat history cleared.">>]
  ELSE IF command = <<"/charinfo">> THEN
    LET cp == CurrentCharacter(u)
    IN [plain(<<"<b>Current Character Info:</b>\nName: ">> \o cp.Name \o <<"\nGreeting: ">>
              \o cp.Greeting \o <<"\nPrompt: ">> \o cp.Prompt \o <<"\nChat Messages: ">>
              \o <<ToString(Len(cp.Chat)), "/", ToString(lim)>>)
        EXCEPT !.user = GetCurrentCharacter(u)]
  ELSE [plain(UnknownCommandText) EXCEPT !.handled = FALSE]

\* A command of the switch calls a collaborator.
CommandSaves(command) ==
  \/ command \in {<<"/newchar">>, <<"/clearchat">>}
  \/ Len(command) = 1 /\ PendingTag(command[1]) # ""

\* handlePendingCommand taking the number typed for the index itself.
HandlePendingCommand_ZeroBased(u, d, inp, ok) ==
  LET update(prop, failText, okText) ==
        LET r == UpdateUserProperty(u, d, prop, inp, ok)
        IN [user |-> r.user, db |-> r.db, op |-> prop, err |-> r.err, failed |-> ~ok,
            out |-> IF r.err # "none" THEN <<failText, r.err>> ELSE <<okText>>]
      tag == u.PendingCommand
  IN
  IF tag = "switch_character" THEN
    LET n == Atoi(inp) IN
    IF n.err \/ n.val < 0 \/ n.val >= Len(u.Characters)
    THEN [user |-> u, db |-> d, op |-> "none", err |-> "none", failed |-> FALSE,
          out |-> InvalidNumberText]
    ELSE LET r == ChangeCharacter(u, d, n.val, ok)
         IN [user |-> r.user, db |-> r.db, op |-> "ChangeCurrentCharacter",
             err |-> r.err, failed |-> ~ok,
             out |-> IF r.err # "none" THEN <<"Failed to switch character: ", r.err>>
                     ELSE <<"Switched to character: ">> \o CurrentCharacter(r.user).Name]
  ELSE IF tag = "set_prompt" THEN
    update("Prompt", "Failed to set prompt: ", "Prompt updated successfully!")
  ELSE IF tag = "set_greeting" THEN
    update("Greeting", "Failed to set greeting: ", "Greeting updated successfully!")
  ELSE IF tag = "set_character_name" THEN
    update("CharacterName", "Failed to set character name: ",
           "Character name updated successfully!")
  ELSE IF tag = "set_user_name" THEN
    update("UserName", "Failed to set your username: ", "Your username updated successfully!")
  ELSE IF tag = "set_user_description" THEN
    update("UserDescription", "Failed to set your description: ",
           "Your description updated successfully!")
  ELSE [user |-> u, db |-> d, op |-> "none", err |-> "none", failed |-> FALSE,
        out |-> <<"Unknown pending command state.">>]

\* handlePendingCommand (lines 241-286).
HandlePendingCommand(u, d, inp, ok) ==
  LET update(prop, failText, okText) ==
        LET r == UpdateUserProperty(u, d, prop, inp, ok)
        IN [user |-> r.user, db |-> r.db, op |-> prop, err |-> r.err, failed |-> ~ok,
            out |-> IF r.err # "none" THEN <<failText, r.err>> ELSE <<okText>>]
      tag == u.PendingCommand
  IN
  IF tag = "switch_character" THEN
    LET n == Atoi(inp) IN
    IF n.err \/ n.val <= 0 \/ n.val > Len(u.Characters)
    THEN [user |-> u, db |-> d, op |-> "none", err |-> "none", failed |-> FALSE,
          out |-> InvalidNumberText]
    ELSE LET r == ChangeCharacter(u, d, n.val - 1, ok)
         IN [user |-> r.user, db |-> r.db, op |-> "ChangeCurrentCharacter",
             err |-> r.err, failed |-> ~ok,
             out |-> IF r.err # "none" THEN <<"Failed to switch character: ", r.err>>
                     ELSE <<"Switched to character: ">> \o CurrentCharacter(r.user).Name]
  ELSE IF tag = "set_prompt" THEN
    update("Prompt", "Failed to set prompt: ", "Prompt updated successfully!")
  ELSE IF tag = "set_greeting" THEN
    update("Greeting", "Failed to set greeting: ", "Greeting updated successfully!")
  ELSE IF tag = "set_character_name" THEN
    update("CharacterName", "Failed to set character name: ",
           "Character name updated successfully!")
  ELSE IF tag = "set_user_name" THEN
    update("UserName", "Failed to set your username: ", "Your username updated successfully!")
  ELSE IF tag = "set_user_description" THEN
    update("UserDescription", "Failed to set your description: ",
           "Your description updated successfully!")
  ELSE [user |-> u, db |-> d, op |-> "none", err |-> "none", failed |-> FALSE,
        out |-> <<"Unknown pending command state.">>]

\* The pending tag makes handlePendingCommand call a collaborator.
PendingSaves(u, inp) ==
  IF u.PendingCommand = "switch_character"
  THEN LET n == Atoi(inp) IN ~n.err /\ n.val > 0 /\ n.val <= Len(u.Characters)
  ELSE u.PendingCommand \in {"set_prompt", "set_greeting", "set_character_name",
                             "set_user_name", "set_user_description"}

\* What Telegram may deliver.
TgUserNames == {<<"alice">>, <<>>}
Inbound == {<<c>> : c \in SlashTokens} \cup Texts \cup {<<"1">>, <<"2">>, <<>>}

\* message.From.UserName, or "User<id>" when it is empty (lines 70-73).
UserNameOf(name) == IF name = <<>> THEN <<"User", ToString(TheUserID)>> ELSE name

\* sendMessage(text): sentMessage.MessageID, or -1 when the send failed.
SendMessage(ok) == IF ok THEN tgNext ELSE -1

\* StartPolling starts a goroutine for an update carrying a message whose
\* text is one of texts, from an account whose username is one of names.
Arrive(h, texts, names) ==
  /\ pc[h] \in {"idle", "done"}
  /\ clock' = clock + 1
  /\ \E text \in texts, name \in names :
       /\ input' = [input EXCEPT ![h] = text]
       /\ Begin(h, "GetOrCreateUser", UserNameOf(name), "goc_load", "none", 0, <<>>)
  /\ usr' = [usr EXCEPT ![h] = NoUser]
  /\ route' = [route EXCEPT ![h] = "none"]
  /\ out' = [out EXCEPT ![h] = <<>>]
  /\ sent' = [sent EXCEPT ![h] = <<>>]
  /\ prevUpdate' = [prevUpdate EXCEPT ![h] =
       IF pc[h] = "idle" THEN [NoUpdate EXCEPT !.stored = StoredPending(db)]
       ELSE [input |-> input[h], route |-> route[h], err |-> err[h],
             pending |-> IF usr[h] = NoUser THEN "" ELSE usr[h].PendingCommand,
             stored |-> StoredPending(db)]]
  /\ UNCHANGED <<main, limit, faults, db, tgNext>>

\* The updates of a run are bounded.
Deliver(h, texts, names) == clock < MaxEvents /\ Arrive(h, texts, names)

Receive(h) == Deliver(h, Inbound, TgUserNames)

\* A free-text message of the account named bob.
ReceiveText(h) == Deliver(h, Texts, {<<"bob">>})

\* handleMessage after GetOrCreateUser failed (lines 76-80).
LoadFailed(h) ==
  /\ pc[h] = "ret" /\ op[h] = "GetOrCreateUser" /\ err[h] # "none"
  /\ \E tgOk \in Oks :
       /\ tgNext' = tgNext + (IF tgOk THEN 1 ELSE 0)
       /\ Fault(~tgOk)
  /\ sent' = [sent EXCEPT ![h] = Append(@, FetchErrorText)]
  /\ route' = [route EXCEPT ![h] = "load_error"]
  /\ pc' = [pc EXCEPT ![h] = "done"]
  /\ UNCHANGED <<main, limit, clock, db, usr, frame, input, out, prevUpdate>>

\* handleMessage after GetOrCreateUser succeeded (lines 82-95).
Dispatch(h) ==
  /\ pc[h] = "ret" /\ op[h] = "GetOrCreateUser" /\ err[h] = "none"
  /\ IF usr[h].LastMessageID # 0
     THEN \E ok \in Oks :
            LET reset == [usr[h] EXCEPT !.LastMessageID = 0] IN
            /\ usr' = [usr EXCEPT ![h] = reset]
            /\ db' = SaveUser(db, reset, ok)
            /\ Fault(~ok)
     ELSE UNCHANGED <<usr, db, faults>>
  /\ pc' = [pc EXCEPT ![h] = IF IsCommand(input[h]) THEN "cmd" ELSE "text"]
  /\ UNCHANGED <<main, limit, clock, frame, bot>>

\* handleCommand keeping the pending command of the user it was given.
CommandResetPending_KeepsTag(h) ==
  /\ pc[h] = "cmd"
  /\ pc' = [pc EXCEPT ![h] = "cmd_do"]
  /\ UNCHANGED <<main, limit, clock, faults, db, usr, frame, bot>>

\* handleCommand: a pending command is dropped first (lines 104-110).
CommandResetPending(h) ==
  /\ pc[h] = "cmd"
  /\ IF usr[h].PendingCommand # ""
     THEN \E ok \in Oks :
            LET reset == [usr[h] EXCEPT !.PendingCommand = ""] IN
            /\ usr' = [usr EXCEPT ![h] = reset]
            /\ db' = SaveUser(db, reset, ok)
            /\ Fault(~ok)
     ELSE UNCHANGED <<usr, db, faults>>
  /\ pc' = [pc EXCEPT ![h] = "cmd_do"]
  /\ UNCHANGED <<main, limit, clock, frame, bot>>

\* handleCommand: the switch (lines 112-193).
CommandSwitch(h) ==
  /\ pc[h] = "cmd_do"
  /\ \E ok \in (IF CommandSaves(input[h]) THEN Oks ELSE {TRUE}) :
       LET r == HandleCommandSwitch(usr[h], db, input[h], limit, ok) IN
       /\ usr' = [usr EXCEPT ![h] = r.user]
       /\ db' = r.db
       /\ out' = [out EXCEPT ![h] = r.out]
       /\ op' = [op EXCEPT ![h] = r.op]
       /\ err' = [err EXCEPT ![h] = r.err]
       /\ route' = [route EXCEPT ![h] = IF r.handled THEN "command" ELSE "unknown_command"]
       /\ pc' = [pc EXCEPT ![h] = IF r.handled THEN "cmd_send" ELSE "done"]
       /\ Fault(r.failed)
  /\ UNCHANGED <<main, limit, clock, txt, chatIdx, response, reply, trace, pre, modelMsgs, gwReq,
                 gwResp, gwCalls, saves, prevCall, tgNext, input, sent, prevUpdate>>

\* The sent message id is recorded in the stored document, not in the user
\* value the handler holds.
SendAndRemember_StoredUser(h) ==
  \E tgOk \in Oks :
    /\ sent' = [sent EXCEPT ![h] = Append(@, out'[h])]
    /\ tgNext' = tgNext + (IF tgOk THEN 1 ELSE 0)
    /\ IF SendMessage(tgOk) # -1
       THEN \E ok \in Oks :
              LET noted == [usr[h] EXCEPT !.LastMessageID = SendMessage(tgOk)] IN
              /\ usr' = [usr EXCEPT ![h] = noted]
              /\ db' = IF ok /\ db # NoDoc
                       THEN [db EXCEPT !.LastMessageID = SendMessage(tgOk)] ELSE db
              /\ Fault(~ok)
       ELSE /\ UNCHANGED <<usr, db>>
            /\ Fault(TRUE)

\* sendMessage(out) and, when it was sent, the save of LastMessageID
\* (lines 195-204 and 231-237).
SendAndRemember(h) ==
  \E tgOk \in Oks :
    /\ sent' = [sent EXCEPT ![h] = Append(@, out'[h])]
    /\ tgNext' = tgNext + (IF tgOk THEN 1 ELSE 0)
    /\ IF SendMessage(tgOk) # -1
       THEN \E ok \in Oks :
              LET noted == [usr[h] EXCEPT !.LastMessageID = SendMessage(tgOk)] IN
              /\ usr' = [usr EXCEPT ![h] = noted]
              /\ db' = SaveUser(db, noted, ok)
              /\ Fault(~ok)
       ELSE /\ UNCHANGED <<usr, db>>
            /\ Fault(TRUE)

CommandSend(h) ==
  /\ pc[h] = "cmd_send"
  /\ out' = out
  /\ SendAndRemember(h)
  /\ pc' = [pc EXCEPT ![h] = "done"]
  /\ UNCHANGED <<main, limit, clock, frame, input, route, prevUpdate>>

\* handleTextMessage sending what handlePendingCommand returned, error text
\* included.
TextPending_KeepsErrorText(h) ==
  /\ pc[h] = "text" /\ usr[h].PendingCommand # ""
  /\ \E ok \in (IF PendingSaves(usr[h], input[h]) THEN Oks ELSE {TRUE}) :
       LET r == HandlePendingCommand(usr[h], db, input[h], ok) IN
       /\ usr' = [usr EXCEPT ![h] = r.user]
       /\ db' = r.db
       /\ out' = [out EXCEPT ![h] = r.out]
       /\ op' = [op EXCEPT ![h] = r.op]
       /\ err' = [err EXCEPT ![h] = r.err]
       /\ Fault(r.failed)
  /\ route' = [route EXCEPT ![h] = "pending"]
  /\ pc' = [pc EXCEPT ![h] = "pend_clear"]
  /\ UNCHANGED <<main, limit, clock, txt, chatIdx, response, reply, trace, pre, modelMsgs, gwReq,
                 gwResp, gwCalls, saves, prevCall, tgNext, input, sent, prevUpdate>>

\* handleTextMessage with a pending command: handlePendingCommand (lines 213-218).
TextPending(h) ==
  /\ pc[h] = "text" /\ usr[h].PendingCommand # ""
  /\ \E ok \in (IF PendingSaves(usr[h], input[h]) THEN Oks ELSE {TRUE}) :
       LET r == HandlePendingCommand(usr[h], db, input[h], ok) IN
       /\ usr' = [usr EXCEPT ![h] = r.user]
       /\ db' = r.db
       /\ out' = [out EXCEPT ![h] = IF r.err # "none" THEN PendingErrorText ELSE r.out]
       /\ op' = [op EXCEPT ![h] = r.op]
       /\ err' = [err EXCEPT ![h] = r.err]
       /\ Fault(r.failed)
  /\ route' = [route EXCEPT ![h] = "pending"]
  /\ pc' = [pc EXCEPT ![h] = "pend_clear"]
  /\ UNCHANGED <<main, limit, clock, txt, chatIdx, response, reply, trace, pre, modelMsgs, gwReq,
                 gwResp, gwCalls, saves, prevCall, tgNext, input, sent, prevUpdate>>

\* handleTextMessage clearing the pending command without the save of line 220.
PendingClear_NoSave(h) ==
  /\ pc[h] = "pend_clear"
  /\ usr' = [usr EXCEPT ![h] = [usr[h] EXCEPT !.PendingCommand = ""]]
  /\ pc' = [pc EXCEPT ![h] = "text_send"]
  /\ UNCHANGED <<main, limit, clock, faults, db, frame, bot>>

\* handleTextMessage: the pending command is cleared and saved (lines 219-222).
PendingClear(h) ==
  /\ pc[h] = "pend_clear"
  /\ \E ok \in Oks :
       LET cleared == [usr[h] EXCEPT !.PendingCommand = ""] IN
       /\ usr' = [usr EXCEPT ![h] = cleared]
       /\ db' = SaveUser(db, cleared, ok)
       /\ Fault(~ok)
  /\ pc' = [pc EXCEPT ![h] = "text_send"]
  /\ UNCHANGED <<main, limit, clock, frame, bot>>

\* handleTextMessage calling the engine whatever the pending command.
TextModel_IgnoresTag(h) ==
  /\ pc[h] = "text"
  /\ Begin(h, "GetModelResponseForUser", input[h], "resp_start", "none", 0, <<>>)
  /\ route' = [route EXCEPT ![h] = "model"]
  /\ UNCHANGED <<main, limit, clock, faults, db, usr, tgNext, input, out, sent, prevUpdate>>

\* handleTextMessage without a pending command calls the engine (line 225).
TextModel(h) ==
  /\ pc[h] = "text" /\ usr[h].PendingCommand = ""
  /\ Begin(h, "GetModelResponseForUser", input[h], "resp_start", "none", 0, <<>>)
  /\ route' = [route EXCEPT ![h] = "model"]
  /\ UNCHANGED <<main, limit, clock, faults, db, usr, tgNext, input, out, sent, prevUpdate>>

\* handleTextMessage: the answer to a pending command is sent (lines 231-237).
PendingSend(h) ==
  /\ pc[h] = "text_send"
  /\ out' = out
  /\ SendAndRemember(h)
  /\ pc' = [pc EXCEPT ![h] = "done"]
  /\ UNCHANGED <<main, limit, clock, frame, input, route, prevUpdate>>

\* handleTextMessage: the engine has returned; the reply or the apology is
\* sent (lines 226-237).
ModelSend(h) ==
  /\ pc[h] = "ret" /\ op[h] = "GetModelResponseForUser"
  /\ out' = [out EXCEPT ![h] = IF err[h] # "none" THEN ModelErrorText ELSE reply[h]]
  /\ SendAndRemember(h)
  /\ pc' = [pc EXCEPT ![h] = "done"]
  /\ UNCHANGED <<main, limit, clock, frame, input, route, prevUpdate>>

BotStep(h) ==
  \/ Receive(h)
  \/ LoadFailed(h)
  \/ Dispatch(h)
  \/ CommandResetPending(h)
  \/ CommandSwitch(h)
  \/ CommandSend(h)
  \/ TextPending(h)
  \/ PendingClear(h)
  \/ PendingSend(h)
  \/ TextModel(h)
  \/ ModelSend(h)

\* The bot handling one message update at a time.
NextBot == BotStep(Caller) \/ EngineStep(Caller)

SpecBot == Init /\ [][NextBot]_vars

\* Free-text messages of one user, each handled by its own goroutine.
NextRace ==
  \E h \in Handlers :
    \/ ReceiveText(h)
    \/ LoadFailed(h)
    \/ Dispatch(h)
    \/ TextModel(h)
    \/ ModelSend(h)
    \/ EngineStep(h)

SpecRace == Init /\ [][NextRace]_vars

\* A tag-setting command and a free-text message of one user, each handled by
\* its own goroutine, and a free-text message that arrives when both are done.
Other == 2
TagInputs == {<<"/setprompt">>, <<"/switchchar">>}

ReceiveTagCommand == pc[Caller] = "idle" /\ Deliver(Caller, TagInputs, {<<"bob">>})
ReceiveRacingText == pc[Other] = "idle" /\ Deliver(Other, Texts, {<<"bob">>})
ReceiveLater ==
  /\ clock = MaxEvents /\ pc[Caller] = "done" /\ pc[Other] = "done"
  /\ Arrive(Other, Texts, {<<"bob">>})

NextPending ==
  \/ ReceiveTagCommand
  \/ ReceiveRacingText
  \/ ReceiveLater
  \/ \E h \in Handlers :
       \/ LoadFailed(h)
       \/ Dispatch(h)
       \/ CommandResetPending(h)
       \/ CommandSwitch(h)
       \/ CommandSend(h)
       \/ TextPending(h)
       \/ PendingClear(h)
       \/ PendingSend(h)
       \/ TextModel(h)
       \/ ModelSend(h)
       \/ EngineStep(h)

SpecPending == Init /\ [][NextPending]_vars

\* Updates of one user that add a character, switch the character or answer
\* a pending switch, each handled by its own goroutine.  The collection may
\* also hold what an earlier run left after /newchar and /switchchar.
EarlierCharacters(lim) ==
  LET created == NewUser(TheUserID, <<"bob">>, 0)
      added == AddCharacter(created, NoDoc, NewCharacterPreset, TRUE).user
  IN HandleCommandSwitch(added, NoDoc, <<"/switchchar">>, lim, TRUE).db

CharacterInputs == {<<"/newchar">>, <<"/switchchar">>, <<"1">>, <<"2">>}

InitCharacters ==
  /\ main = Running
  /\ limit \in 0..MaxLimit
  /\ db \in {NoDoc, EarlierRun(limit), EarlierCharacters(limit)}
  /\ usr = [h \in Handlers |-> NoUser]
  /\ Fresh

ReceiveCharacterUpdate(h) == Deliver(h, CharacterInputs, {<<"bob">>})

NextCharacters ==
  \E h \in Handlers :
    \/ ReceiveCharacterUpdate(h)
    \/ LoadFailed(h)
    \/ Dispatch(h)
    \/ CommandResetPending(h)
    \/ CommandSwitch(h)
    \/ CommandSend(h)
    \/ TextPending(h)
    \/ PendingClear(h)
    \/ PendingSend(h)
    \/ TextModel(h)
    \/ ModelSend(h)
    \/ EngineStep(h)

SpecCharacters == InitCharacters /\ [][NextCharacters]_vars

\* ------------------------------------- the entity functions on their own
\* The functions of the entity model and of the gateway applied to values a
\* stored document or an endpoint may hold: user and character names with
\* placeholders in them, a current character id outside the characters, no
\* character at all, chats as appended and as decoded, any HTTP status.
UserNames == {<<"Alice">>, <<CharTok>>, <<UserTok, "!">>}
PresetNames == {<<"Bob">>, <<CharTok, "!">>, <<UserTok>>}
PlaceholderTexts ==
  {<<"hi">>, <<UserTok>>, <<CharTok>>, <<"Hi ", UserTok, ", I am ", CharTok, ".">>}
Appended == <<NewChatMessage(UserRole, <<CharTok>>), NewChatMessage(Assistant, <<UserTok>>)>>
Decoded == [i \in 1..Len(Appended) |-> MessageFromDoc(MessageToDoc(Appended[i]))]
Presets ==
  {[ID |-> 0, Name |-> n, Greeting |-> DefaultGreeting, Prompt |-> p, Chat |-> c] :
     n \in PresetNames, p \in {<<>>, <<CharTok>>}, c \in {<<>>, Appended, Decoded}}
CharacterLists ==
  {<<>>} \cup {<<cp>> : cp \in Presets}
         \cup {<<cp, [NewCharacterPreset EXCEPT !.ID = 1]>> : cp \in Presets}
SomeUsers ==
  {[NewUser(TheUserID, n, 0) EXCEPT !.Characters = cs, !.CurrentCharacterID = i] :
     n \in UserNames, cs \in CharacterLists, i \in -1..MaxChars}
Statuses == {StatusOK, 201, 204, 301, 404, 500}
ChoiceLists == {<<>>, <<<<"sure">>>>, <<<<"sure">>, <<"no">>>>}
WireResponses ==
  {NoResponse} \cup {[sent |-> TRUE, status |-> st, choices |-> ch] :
                       st \in Statuses, ch \in ChoiceLists}

InitEntity ==
  /\ main = Running
  /\ limit = MaxLimit
  /\ db = NoDoc
  /\ usr \in {[h \in Handlers |-> IF h = Caller THEN u ELSE NoUser] : u \in SomeUsers}
  /\ Fresh

\* The function o was applied to the user of h and the argument t: r is the
\* string it returned, u2 the user it left.
Applied(h, o, t, r, e, u2, msgs, req, resp) ==
  /\ clock < MaxCalls
  /\ clock' = clock + 1
  /\ pc' = [pc EXCEPT ![h] = "ret"]
  /\ prevCall' = [prevCall EXCEPT ![h] =
       [op |-> op[h], txt |-> txt[h], err |-> err[h], gw |-> gwCalls[h]]]
  /\ op' = [op EXCEPT ![h] = o]
  /\ txt' = [txt EXCEPT ![h] = t]
  /\ reply' = [reply EXCEPT ![h] = r]
  /\ err' = [err EXCEPT ![h] = e]
  /\ pre' = [pre EXCEPT ![h] = [usr |-> usr[h], db |-> db]]
  /\ usr' = [usr EXCEPT ![h] = u2]
  /\ modelMsgs' = [modelMsgs EXCEPT ![h] = msgs]
  /\ gwReq' = [gwReq EXCEPT ![h] = req]
  /\ gwResp' = [gwResp EXCEPT ![h] = resp]
  /\ UNCHANGED <<main, limit, faults, db, chatIdx, response, trace, gwCalls, saves, bot>>

\* u.GetCurrentCharacter()
CallGetCurrentCharacter(h) ==
  Applied(h, "GetCurrentCharacter", <<>>, CurrentCharacter(usr[h]).Name, "none",
          GetCurrentCharacter(usr[h]), <<>>, <<>>, NoResponse)

\* u.ReplacePlaceholders(input)
CallReplacePlaceholders(h) ==
  \E text \in PlaceholderTexts :
    Applied(h, "ReplacePlaceholders", text, UserReplacePlaceholders(usr[h], text), "none",
            GetCurrentCharacter(usr[h]), <<>>, <<>>, NoResponse)

\* Lines 102-103 of GetModelResponseForUser: the messages for the model.
CallApplyPlaceholders(h) ==
  Applied(h, "applyPlaceholdersToMessages", <<>>, <<>>, "none", GetCurrentCharacter(usr[h]),
          GetChatMessagesForModel(CurrentCharacter(usr[h])), RespondRequest(usr[h]),
          NoResponse)

\* g.GetModelResponse(messages, config), answered by resp.
CallGetModelResponse(h) ==
  \E resp \in WireResponses :
    LET r == GetModelResponse(resp) IN
    Applied(h, "GetModelResponse", <<>>, r.content, IF r.err THEN "model" ELSE "none",
            usr[h], <<>>, <<>>, resp)

NextEntity ==
  \/ CallGetCurrentCharacter(Caller)
  \/ CallReplacePlaceholders(Caller)
  \/ CallApplyPlaceholders(Caller)
  \/ CallGetModelResponse(Caller)

SpecEntity == InitEntity /\ [][NextEntity]_vars

\* ------------------------------------------- texts that carry placeholders
\* GetModelResponseForUser is given a text that may hold {{user}} or {{char}}.
CallRespondPlaceholders(h) ==
  /\ CanCall(h) /\ usr[h] # NoUser
  /\ \E text \in PlaceholderTexts :
       Begin(h, "GetModelResponseForUser", text, "resp_start", "none", 0, <<>>)
  /\ clock' = clock + 1
  /\ UNCHANGED <<main, limit, faults, db, usr, bot>>

NextHistory ==
  \/ CallGetOrCreateUser(Caller)
  \/ CallRespondPlaceholders(Caller)
  \/ EngineStep(Caller)
  \/ Return(Caller)

SpecHistory == Init /\ [][NextHistory]_vars

\* ------------------------------------------ answers to /switchchar
\* One user, one update at a time: /switchchar and what may be typed in
\* answer to it.
SwitchInputs ==
  {<<"/switchchar">>, <<"0">>, <<"1">>, <<"2">>, <<"3">>, <<"+1">>, <<"-1">>, <<" 1">>,
   <<"hi">>}

ReceiveSwitchUpdate(h) == Deliver(h, SwitchInputs, {<<"bob">>})

NextSwitch ==
  \/ ReceiveSwitchUpdate(Caller)
  \/ LoadFailed(Caller)
  \/ Dispatch(Caller)
  \/ CommandResetPending(Caller)
  \/ CommandSwitch(Caller)
  \/ CommandSend(Caller)
  \/ TextPending(Caller)
  \/ PendingClear(Caller)
  \/ PendingSend(Caller)
  \/ TextModel(Caller)
  \/ ModelSend(Caller)
  \/ EngineStep(Caller)

SpecSwitch == InitCharacters /\ [][NextSwitch]_vars

\* -------------------------------------------------------------- startup
\* The process is started in some environment: the .env file can be loaded or
\* not, and each required variable is set or not.
InitMain ==
  /\ main \in {[at |-> "dotenv", dotenv |-> d, set |-> vs, checked |-> 0, cause |-> "none"] :
                 d \in BOOLEAN, vs \in SUBSET ConfigNames}
  /\ limit \in 0..MaxLimit
  /\ db \in {NoDoc, EarlierRun(limit)}
  /\ usr = [h \in Handlers |-> NoUser]
  /\ Fresh

rest == <<limit, clock, faults, db, pc, usr, frame, bot>>

\* appLogger.Fatal(...) in main: the logger was built with AllLevels.
Fatal(cause, next) ==
  IF Log(AllLevels, FatalLevel)
  THEN [main EXCEPT !.at = "exited", !.cause = cause]
  ELSE next

\* godotenv.Load() (lines 20-23): log.Fatalf ends the process.
MainLoadDotEnv ==
  /\ main.at = "dotenv"
  /\ main' = IF main.dotenv THEN [main EXCEPT !.at = "config"]
             ELSE [main EXCEPT !.at = "exited", !.cause = ".env"]
  /\ UNCHANGED rest

\* A missing LLAMA_BASE_URL is replaced by the default written after the
\* Fatal call.
MainRequire_DefaultsBaseURL ==
  /\ main.at = "config"
  /\ LET name == RequiredConfig[main.checked + 1]
         checked == [main EXCEPT !.checked = @ + 1,
                                 !.at = IF main.checked + 1 = Len(RequiredConfig)
                                        THEN "repository" ELSE "config"]
     IN main' = IF name \in main.set \/ name = "LLAMA_BASE_URL" THEN checked
                ELSE Fatal(name, checked)
  /\ UNCHANGED rest

\* os.Getenv of the next required variable (lines 29-45).
MainRequire ==
  /\ main.at = "config"
  /\ LET name == RequiredConfig[main.checked + 1]
         checked == [main EXCEPT !.checked = @ + 1,
                                 !.at = IF main.checked + 1 = Len(RequiredConfig)
                                        THEN "repository" ELSE "config"]
     IN main' = IF name \in main.set THEN checked ELSE Fatal(name, checked)
  /\ UNCHANGED rest

\* persistence.NewMongoDbRepository connects and pings (lines 51-55).
MainNewRepository ==
  /\ main.at = "repository"
  /\ \E ok \in BOOLEAN :
       main' = IF ok THEN [main EXCEPT !.at = "controller"]
               ELSE Fatal("repository", [main EXCEPT !.at = "controller"])
  /\ UNCHANGED rest

\* telegram_adapter.NewTelegramBotController authorises the bot (lines 66-70).
MainNewController ==
  /\ main.at = "controller"
  /\ \E ok \in BOOLEAN :
       main' = IF ok THEN [main EXCEPT !.at = "polling"]
               ELSE Fatal("controller", [main EXCEPT !.at = "polling"])
  /\ UNCHANGED rest

\* StartPolling (line 74): the updates are handled while main waits.
MainPolling ==
  /\ main.at = "polling"
  /\ BotStep(Caller) \/ EngineStep(Caller)

NextMain ==
  \/ MainLoadDotEnv
  \/ MainRequire
  \/ MainNewRepository
  \/ MainNewController
  \/ MainPolling

SpecMain == InitMain /\ [][NextMain]_vars

\* ------------------------------------------------------------ the claims
Min(a, b) == IF a < b THEN a ELSE b

\* The last n elements of s, oldest first.
Suffix(s, n) == [i \in 1..n |-> s[Len(s) - n + i]]
KeepNewest(s, lim) == Suffix(s, Min(lim, Len(s)))

Responding(h) == op[h] = "GetModelResponseForUser"
Returned(h) == pc[h] = "ret"
ChatNow(h) == CurrentCharacter(usr[h]).Chat
ChatBefore(h) == CurrentCharacter(pre[h].usr).Chat
StoredChat(h) == db.Characters[CurrentPos(usr[h])].Chat
UserMessage(h) == NewChatMessage(UserRole, txt[h])
AssistantMessage(h) == NewChatMessage(Assistant, response[h])
FirstPersistDone(h) == Len(trace[h]) >= 3
FirstPersistFailed(h) == Len(trace[h]) = 3 /\ trace[h][3] = "persist_failed"
GatewayFailed(h) == Len(trace[h]) >= 4 /\ trace[h][4] = "gateway_failed"
AssistantAppended(h) == Len(trace[h]) = 7
SecondPersistFailed(h) == Len(trace[h]) = 7 /\ trace[h][7] = "persist_failed"

\* The messages GetModelResponseForUser has appended so far, in order.
AppendedSoFar(h) ==
  IF AssistantAppended(h) THEN <<UserMessage(h), AssistantMessage(h)>>
  ELSE IF FirstPersistDone(h) THEN <<UserMessage(h)>>
  ELSE <<>>

\* C1: after each append-and-trim of GetModelResponseForUser the chat holds at
\* most limit messages and is exactly the newest min(limit, n) of the chat it
\* started from followed by the appended messages, in their order.
C1_HistoryBound ==
  \A h \in Handlers :
    (Responding(h) /\ FirstPersistDone(h)) =>
      /\ Len(ChatNow(h)) <= limit
      /\ Len(ChatBefore(h)) <= limit
      /\ ChatNow(h) = KeepNewest(ChatBefore(h) \o AppendedSoFar(h), limit)

\* An append pushed the oldest message out of a chat that stays non-empty.
C1_Witness ==
  \E h \in Handlers :
    /\ Responding(h) /\ AssistantAppended(h)
    /\ limit >= 1
    /\ Len(ChatBefore(h)) + 2 > limit
    /\ Len(ChatNow(h)) = limit

RespondOrder ==
  <<"append_user", "trim", "persist", "gateway", "append_assistant", "trim", "persist">>
FailedStep(step) ==
  CASE step = "persist" -> "persist_failed"
    [] step = "gateway" -> "gateway_failed"
    [] OTHER -> "never"

\* C2: the steps of one GetModelResponseForUser call occur in the order append,
\* trim, persist, gateway, append, trim, persist; a failed persist or gateway
\* call is the last step; the gateway is called only after the first persist
\* succeeded and the second persist happens only after the gateway replied.
C2_StepOrder ==
  \A h \in Handlers :
    Responding(h) =>
      /\ Len(trace[h]) <= Len(RespondOrder)
      /\ \A i \in 1..Len(trace[h]) :
           \/ trace[h][i] = RespondOrder[i]
           \/ /\ trace[h][i] = FailedStep(RespondOrder[i])
              /\ i = Len(trace[h])
              /\ Returned(h)
      /\ gwCalls[h] > 0 => (FirstPersistDone(h) /\ trace[h][3] = "persist" /\ saves[h] >= 1)
      /\ gwCalls[h] = (IF Len(trace[h]) >= 4 THEN 1 ELSE 0)
      /\ saves[h] = 2 => (Len(trace[h]) = 7 /\ trace[h][4] = "gateway" /\ gwResp[h].sent)
      /\ Len(trace[h]) >= 5 => trace[h][4] = "gateway"

C2_Witness ==
  \E h \in Handlers :
    Responding(h) /\ Returned(h) /\ trace[h] = RespondOrder /\ saves[h] = 2

\* C3: when both persists and the gateway call succeed, the call returns the
\* gateway's reply, the current chat is the newest limit messages of the chat
\* before followed by the user message and the reply, the stored document is
\* the in-memory user, and no other character's chat changed.
C3_SuccessfulTurn ==
  \A h \in Handlers :
    (Responding(h) /\ Returned(h) /\ err[h] = "none") =>
      /\ reply[h] = gwResp[h].choices[1]
      /\ ChatNow(h) =
           KeepNewest(ChatBefore(h) \o <<NewChatMessage(UserRole, txt[h]),
                                        NewChatMessage(Assistant, gwResp[h].choices[1])>>,
                      limit)
      /\ db = ToDoc(usr[h])
      /\ Len(usr[h].Characters) = Len(pre[h].usr.Characters)
      /\ \A i \in 1..Len(usr[h].Characters) :
           i # CurrentPos(usr[h]) =>
             usr[h].Characters[i].Chat = pre[h].usr.Characters[i].Chat

\* A successful turn of a user with a second character whose chat is not empty.
C3_Witness ==
  \E h \in Handlers :
    /\ Responding(h) /\ Returned(h) /\ err[h] = "none"
    /\ Len(usr[h].Characters) = 2
    /\ \E i \in 1..2 : i # CurrentPos(usr[h]) /\ usr[h].Characters[i].Chat # <<>>
    /\ limit >= 2

\* C4: every message of a gateway request carries the role its message was
\* created with, also for chat messages reloaded from the store.
C4_RolesReachGateway ==
  \A h \in Handlers :
    gwCalls[h] > 0 =>
      /\ Len(gwReq[h]) = Len(modelMsgs[h])
      /\ \A i \in 1..Len(gwReq[h]) : gwReq[h][i].Role = modelMsgs[h][i].Role

\* C5: GetChatMessagesForModel yields one system message with the prompt, if
\* and only if the prompt is not empty, followed by the chat in its order.
C5_MessagesForModel ==
  \A h \in Handlers :
    (Responding(h) /\ gwCalls[h] > 0 /\ ~AssistantAppended(h)) =>
      LET cp == CurrentCharacter(usr[h])
          m == modelMsgs[h]
          k == IF cp.Prompt # <<>> THEN 1 ELSE 0
      IN /\ Len(m) = Len(cp.Chat) + k
         /\ k = 1 => m[1] = [ERole |-> System, Role |-> "system", Content |-> cp.Prompt]
         /\ \A i \in 1..Len(cp.Chat) : m[i + k] = cp.Chat[i]
         /\ (Len(m) > 0 /\ m[1].Role = "system") <=> cp.Prompt # <<>>

\* A request built for a character with an empty prompt.
C5_Witness ==
  \E h \in Handlers :
    /\ Responding(h) /\ gwCalls[h] > 0 /\ ~AssistantAppended(h)
    /\ CurrentCharacter(usr[h]).Prompt = <<>>
    /\ Len(modelMsgs[h]) >= 1

RetryAfterFailedFirstPersist(h) ==
  /\ Responding(h)
  /\ prevCall[h].op = "GetModelResponseForUser"
  /\ prevCall[h].err = "persist" /\ prevCall[h].gw = 0
  /\ prevCall[h].txt = txt[h]

\* C6: a failed first persist ends the call with a persist error and no
\* gateway request, the user message stays in the in-memory chat, and once the
\* first persist of a retry with the same text succeeds the stored chat ends
\* with the user message twice (limit >= 2).
C6_FailedFirstPersist ==
  \A h \in Handlers :
    /\ (Responding(h) /\ FirstPersistFailed(h)) =>
         /\ Returned(h) /\ err[h] = "persist" /\ gwCalls[h] = 0
         /\ db = pre[h].db
         /\ limit >= 1 => ChatNow(h)[Len(ChatNow(h))] = UserMessage(h)
    /\ (RetryAfterFailedFirstPersist(h) /\ pc[h] = "resp_model" /\ limit >= 2) =>
         LET c == StoredChat(h) IN
         /\ Len(c) >= 2
         /\ c[Len(c)] = MessageToDoc(UserMessage(h))
         /\ c[Len(c) - 1] = MessageToDoc(UserMessage(h))

C6_Witness ==
  \E h \in Handlers :
    RetryAfterFailedFirstPersist(h) /\ pc[h] = "resp_model" /\ limit >= 2

\* C7: a failed gateway call ends the call with a model error and no further
\* persist; the in-memory chat and the stored chat are the ones of step 3:
\* the user message appended, no assistant message.
C7_GatewayFailure ==
  \A h \in Handlers :
    (Responding(h) /\ GatewayFailed(h)) =>
      /\ Returned(h) /\ err[h] = "model" /\ reply[h] = <<>>
      /\ Len(trace[h]) = 4 /\ saves[h] = 1
      /\ ChatNow(h) = KeepNewest(ChatBefore(h) \o <<UserMessage(h)>>, limit)
      /\ db = ToDoc(usr[h])

C7_Witness ==
  \E h \in Handlers :
    Responding(h) /\ GatewayFailed(h) /\ limit >= 1 /\ Len(ChatNow(h)) >= 1

\* The document the first persist of the call in progress wrote.
StoredAtStep3(h) ==
  LET p == CurrentPos(pre[h].usr)
  IN ToDoc([GetCurrentCharacter(pre[h].usr) EXCEPT
              !.Characters[p].Chat = KeepNewest(@ \o <<UserMessage(h)>>, limit)])

\* C8 as stated: when the second persist fails the call still returns the
\* model's reply.
C8_ReplyStillReturned ==
  \A h \in Handlers :
    (Responding(h) /\ SecondPersistFailed(h)) => reply[h] = response[h]

\* C8 amended: when the second persist fails the call returns a persist error
\* and the empty string; the reply stays in the in-memory chat and the stored
\* document is still the one the first persist wrote.
C8_SecondPersistFailure ==
  \A h \in Handlers :
    (Responding(h) /\ SecondPersistFailed(h)) =>
      /\ Returned(h) /\ err[h] = "persist" /\ reply[h] = <<>>
      /\ response[h] = gwResp[h].choices[1]
      /\ limit >= 1 => ChatNow(h)[Len(ChatNow(h))] = AssistantMessage(h)
      /\ db = StoredAtStep3(h)
      /\ \A i \in 1..Len(StoredChat(h)) :
           StoredChat(h)[i] # MessageToDoc(AssistantMessage(h))
               \/ \E j \in 1..Len(ChatBefore(h)) :
                    MessageToDoc(ChatBefore(h)[j]) = MessageToDoc(AssistantMessage(h))

C8_Witness ==
  \E h \in Handlers :
    Responding(h) /\ SecondPersistFailed(h) /\ limit >= 2 /\ response[h] # <<>>

\* C9 as stated: an operation that returns an error leaves the stored
\* document as it was before the call.
C9_FailureIsAtomic ==
  \A h \in Handlers :
    (Returned(h) /\ err[h] # "none") => db = pre[h].db

\* C9 amended: GetOrCreateUser, AddCharacter, ClearChatHistory,
\* UpdateUserProperty and ChangeCurrentCharacter leave the stored document
\* untouched when they return an error, and so does GetModelResponseForUser
\* when its first persist fails; when it fails later, the document is the one
\* its first persist wrote.
C9_FailureAfterFirstPersist ==
  \A h \in Handlers :
    (Returned(h) /\ err[h] # "none") =>
      IF Responding(h) /\ ~FirstPersistFailed(h)
      THEN saves[h] = 1 /\ db = StoredAtStep3(h)
      ELSE saves[h] = 0 /\ db = pre[h].db

\* An operation other than GetModelResponseForUser failed on a user whose
\* in-memory value differs from the stored document.
C9_Witness ==
  \E h \in Handlers :
    /\ Returned(h) /\ err[h] = "persist" /\ ~Responding(h)
    /\ op[h] # "GetOrCreateUser"
    /\ db # NoDoc /\ usr[h] # NoUser /\ db # ToDoc(usr[h])

\* Both handlers answered a model query and no collaborator call failed.
BothAnswered ==
  /\ faults = 0
  /\ \A h \in Handlers : pc[h] = "done" /\ route[h] = "model" /\ err[h] = "none"
DocsOf(chat) == [i \in 1..Len(chat) |-> MessageToDoc(chat[i])]
\* The chat handler h loaded, followed by its own exchange, trimmed.
TurnOf(h) == KeepNewest(ChatBefore(h) \o <<UserMessage(h), AssistantMessage(h)>>, limit)

\* C10: when two concurrently handled free-text messages of one user have both
\* been answered without any failure, the stored document is the whole user of
\* one handler, the later writer; and when both handlers had loaded the same
\* chat, the stored chat is that chat followed by the exchange of one handler
\* alone, so the other handler's messages are not in it.
C10_LostUpdate ==
  BothAnswered =>
    /\ \E h \in Handlers : db = ToDoc(usr[h])
    /\ DocsOf(ChatBefore(1)) = DocsOf(ChatBefore(2)) =>
         \E h \in Handlers : StoredChat(h) = DocsOf(TurnOf(h))

\* Two different messages raced on an empty chat under a limit of two or more:
\* the stored chat holds one exchange and the other user message is missing.
C10_Witness ==
  /\ BothAnswered
  /\ limit >= 2
  /\ txt[1] # txt[2]
  /\ ChatBefore(1) = <<>> /\ ChatBefore(2) = <<>>
  /\ \E h, j \in Handlers :
       /\ j # h
       /\ db = ToDoc(usr[h])
       /\ Len(StoredChat(h)) = 2
       /\ StoredChat(h)[1].Content = txt[h]
       /\ \A i \in 1..Len(StoredChat(h)) : StoredChat(h)[i].Content # txt[j]

\* ------------------------------------------- the engine's other operations
NoTime(x) == [x EXCEPT !.RequestTime = 0]
Called(h, o) == op[h] = o /\ Returned(h)

\* The single save of an operation was attempted, and it either wrote the
\* in-memory user or failed, left the document alone and failed the call.
SavedOrFailed(h) ==
  \/ err[h] = "none" /\ trace[h] = <<"persist">> /\ saves[h] = 1 /\ db = ToDoc(usr[h])
  \/ err[h] = "persist" /\ trace[h] = <<"persist_failed">> /\ saves[h] = 0 /\ db = pre[h].db

\* C14: GetOrCreateUser on an id without a stored document returns a user with
\* exactly one character, index 0, the name "Default", the default greeting
\* and prompt, an empty chat and no pending command, and that user was saved
\* before the call returned; when that save fails no user is returned.
C14_NewUser ==
  \A h \in Handlers :
    (Called(h, "GetOrCreateUser") /\ pre[h].db = NoDoc /\ trace[h][1] = "load") =>
      IF err[h] = "none"
      THEN /\ usr[h] # NoUser
           /\ usr[h].ID = TheUserID /\ usr[h].UserName = txt[h]
           /\ usr[h].UserDescription = <<>>
           /\ Len(usr[h].Characters) = 1 /\ usr[h].CurrentCharacterID = 0
           /\ usr[h].Characters[1] =
                [ID |-> 0, Name |-> <<"Default">>,
                 Greeting |-> <<"Hello! How can I help you today?">>,
                 Prompt |-> <<"You are a helpful AI assistant.">>, Chat |-> <<>>]
           /\ usr[h].PendingCommand = "" /\ usr[h].LastMessageID = 0
           /\ trace[h] = <<"load", "persist">> /\ saves[h] = 1
           /\ db # NoDoc /\ NoTime(db) = NoTime(ToDoc(usr[h]))
      ELSE usr[h] = NoUser /\ db = NoDoc /\ trace[h] = <<"load", "persist_failed">>

C14_Witness ==
  \E h \in Handlers :
    /\ Called(h, "GetOrCreateUser") /\ pre[h].db = NoDoc /\ err[h] = "none"
    /\ db # NoDoc /\ Len(db.Characters) = 1

\* C15: GetOrCreateUser on a stored user whose name differs from the given one
\* returns the stored user under the given name after one save attempt, and
\* succeeds also when that save fails; when the load fails the call fails
\* with no save attempt.
C15_RenameAndLoadFailure ==
  \A h \in Handlers :
    Called(h, "GetOrCreateUser") =>
      /\ trace[h][1] = "load_failed" =>
           /\ err[h] = "load" /\ usr[h] = NoUser
           /\ trace[h] = <<"load_failed">> /\ saves[h] = 0 /\ db = pre[h].db
      /\ (trace[h][1] = "load" /\ pre[h].db # NoDoc /\ pre[h].db.UserName # txt[h]) =>
           /\ err[h] = "none" /\ usr[h] # NoUser
           /\ usr[h].UserName = txt[h]
           /\ NoTime(usr[h]) = NoTime([FromDoc(pre[h].db) EXCEPT !.UserName = txt[h]])
           /\ Len(trace[h]) = 2
           /\ \/ trace[h][2] = "persist" /\ saves[h] = 1 /\ NoTime(db) = NoTime(ToDoc(usr[h]))
              \/ trace[h][2] = "persist_failed" /\ saves[h] = 0 /\ db = pre[h].db

\* The rename could not be saved and the call succeeded with the new name.
C15_Witness ==
  \E h \in Handlers :
    /\ Called(h, "GetOrCreateUser") /\ err[h] = "none"
    /\ trace[h] = <<"load", "persist_failed">>
    /\ db # NoDoc /\ db.UserName # usr[h].UserName /\ usr[h].UserName = txt[h]

\* C16: each AddCharacter appends one character whose ID is its index, makes
\* it the current one and saves the user, so that a user that began with the
\* default character has the IDs 0, 1, ..., K in order after K additions.
C16_CharacterIDs ==
  \A h \in Handlers :
    /\ usr[h] # NoUser =>
         \A i \in 1..Len(usr[h].Characters) : usr[h].Characters[i].ID = i - 1
    /\ Called(h, "AddCharacter") =>
         LET before == pre[h].usr.Characters
             after == usr[h].Characters
         IN /\ Len(after) = Len(before) + 1
            /\ SubSeq(after, 1, Len(before)) = before
            /\ after[Len(after)] = [NewCharacterPreset EXCEPT !.ID = Len(before)]
            /\ usr[h].CurrentCharacterID = Len(after) - 1
            /\ usr[h] = [pre[h].usr EXCEPT !.Characters = after,
                                           !.CurrentCharacterID = Len(after) - 1]
            /\ SavedOrFailed(h)

\* Two additions in a row to a user that had the default character only.
C16_Witness ==
  \E h \in Handlers :
    /\ Called(h, "AddCharacter") /\ err[h] = "none"
    /\ prevCall[h].op = "AddCharacter" /\ prevCall[h].err = "none"
    /\ Len(usr[h].Characters) = 3
    /\ usr[h].Characters[3].ID = 2 /\ usr[h].CurrentCharacterID = 2
    /\ db = ToDoc(usr[h])

\* C17: ChangeCurrentCharacter with an index outside [0, len(Characters))
\* fails, leaves the user as it was and attempts no save; with an index inside
\* it sets CurrentCharacterID to the index, changes nothing else and saves.
C17_ChangeCurrentCharacter ==
  \A h \in Handlers :
    Called(h, "ChangeCurrentCharacter") =>
      \A index \in Indexes :
        txt[h] = <<ToString(index)>> =>
          IF index < 0 \/ index >= Len(pre[h].usr.Characters)
          THEN /\ err[h] = "index" /\ usr[h] = pre[h].usr
               /\ trace[h] = <<>> /\ saves[h] = 0 /\ db = pre[h].db
          ELSE /\ usr[h] = [pre[h].usr EXCEPT !.CurrentCharacterID = index]
               /\ usr[h].Characters = pre[h].usr.Characters
               /\ SavedOrFailed(h)

\* A switch back to the first character right after a rejected index.
C17_Witness ==
  \E h \in Handlers :
    /\ Called(h, "ChangeCurrentCharacter") /\ err[h] = "none"
    /\ txt[h] = <<"0">> /\ usr[h].CurrentCharacterID = 0
    /\ Len(usr[h].Characters) = 2 /\ pre[h].usr.CurrentCharacterID = 1
    /\ db = ToDoc(usr[h])

\* The users a and b agree in every field but the one prop selects; p is the
\* position of the current character.
SameButField(prop, a, b, p) ==
  CASE prop = "Prompt" ->
         [a EXCEPT !.Characters[p].Prompt = <<>>] = [b EXCEPT !.Characters[p].Prompt = <<>>]
    [] prop = "Greeting" ->
         [a EXCEPT !.Characters[p].Greeting = <<>>] = [b EXCEPT !.Characters[p].Greeting = <<>>]
    [] prop = "CharacterName" ->
         [a EXCEPT !.Characters[p].Name = <<>>] = [b EXCEPT !.Characters[p].Name = <<>>]
    [] prop = "UserName" -> [a EXCEPT !.UserName = <<>>] = [b EXCEPT !.UserName = <<>>]
    [] OTHER -> [a EXCEPT !.UserDescription = <<>>] = [b EXCEPT !.UserDescription = <<>>]

\* C18: UpdateUserProperty with a name outside the five property names fails,
\* leaves the user as it was and attempts no save; with one of the five names
\* it changes no field but the one the name selects, and saves.
C18_UpdateUserProperty ==
  \A h \in Handlers : \A prop \in PropertyArgs :
    Called(h, prop) =>
      IF prop \notin {"Prompt", "UserName", "UserDescription", "CharacterName", "Greeting"}
      THEN /\ err[h] = "property" /\ usr[h] = pre[h].usr
           /\ trace[h] = <<>> /\ saves[h] = 0 /\ db = pre[h].db
      ELSE /\ SameButField(prop, usr[h], pre[h].usr, CurrentPos(pre[h].usr))
           /\ SavedOrFailed(h)

\* The greeting of the second of two characters was changed and saved.
C18_Witness ==
  \E h \in Handlers :
    /\ Called(h, "Greeting") /\ err[h] = "none" /\ txt[h] = <<"v">>
    /\ Len(usr[h].Characters) = 2 /\ usr[h].CurrentCharacterID = 1
    /\ usr[h].Characters[2].Greeting = <<"v">>
    /\ usr[h].Characters[1].Greeting # <<"v">>
    /\ db = ToDoc(usr[h])

\* The value as typed with every {{user}} replaced by the user's name and then,
\* in the result of that, every {{char}} by the current character's name.
Expanded(value, u) ==
  ReplaceAll(ReplaceAll(value, UserTok, u.UserName), CharTok, CurrentCharacter(u).Name)

\* The field of u that prop selects.
FieldOf(prop, u) ==
  CASE prop = "Prompt" -> CurrentCharacter(u).Prompt
    [] prop = "Greeting" -> CurrentCharacter(u).Greeting
    [] prop = "CharacterName" -> CurrentCharacter(u).Name
    [] prop = "UserName" -> u.UserName
    [] OTHER -> u.UserDescription

\* C19: UpdateUserProperty stores, for Prompt, UserDescription and Greeting,
\* the value with {{user}} and {{char}} replaced by the user name and the
\* current character's name as they were before the call (the {{user}} pass
\* first, the {{char}} pass over its result), and for UserName and
\* CharacterName the value as typed, tokens included; a successful call
\* leaves the same value in the stored document.
C19_StoredValue ==
  \A h \in Handlers : \A prop \in PropertyNames :
    Called(h, prop) =>
      LET want == IF prop \in {"Prompt", "UserDescription", "Greeting"}
                  THEN Expanded(txt[h], pre[h].usr)
                  ELSE txt[h]
      IN /\ FieldOf(prop, usr[h]) = want
         /\ err[h] = "none" => FieldOf(prop, FromDoc(db)) = want

\* A prompt typed with both tokens was stored expanded, right after a character
\* name typed with both tokens was stored as typed.
C19_Witness ==
  \E h \in Handlers :
    /\ Called(h, "Prompt") /\ err[h] = "none"
    /\ txt[h] = <<UserTok, "&", CharTok>>
    /\ prevCall[h].op = "CharacterName" /\ prevCall[h].txt = <<UserTok, "&", CharTok>>
    /\ CurrentCharacter(usr[h]).Name = <<UserTok, "&", CharTok>>
    /\ CurrentCharacter(usr[h]).Prompt = usr[h].UserName \o <<"&", UserTok, "&", CharTok>>
    /\ UserTok \notin {usr[h].UserName[i] : i \in 1..Len(usr[h].UserName)}

\* GetModelResponseForUser runs right after ClearChatHistory on the same user
\* and has made its gateway request.
RespondsAfterClear(h) ==
  Responding(h) /\ gwCalls[h] > 0 /\ prevCall[h].op = "ClearChatHistory"
SystemMessages(h) == IF CurrentCharacter(pre[h].usr).Prompt # <<>> THEN 1 ELSE 0
IsNewUserMessage(h, m) ==
  /\ m.Role = "user"
  /\ m.Content = CharReplacePlaceholders(CurrentCharacter(pre[h].usr),
                                         UserReplacePlaceholders(pre[h].usr, txt[h]))

\* ClearChatHistory empties the chat of the current character, changes nothing
\* else of the user, and saves.
ClearsCurrentChat(h) ==
  Called(h, "ClearChatHistory") =>
    /\ usr[h] = [pre[h].usr EXCEPT !.Characters[CurrentPos(pre[h].usr)].Chat = <<>>]
    /\ CurrentCharacter(usr[h]).Chat = <<>>
    /\ SavedOrFailed(h)

\* C20 as stated: ClearChatHistory empties only the current chat and saves, and
\* the next GetModelResponseForUser sends the gateway the optional system
\* prompt followed by the new user message, and nothing else.
C20_ClearThenRespond ==
  \A h \in Handlers :
    /\ ClearsCurrentChat(h)
    /\ RespondsAfterClear(h) =>
         /\ Len(gwReq[h]) = SystemMessages(h) + 1
         /\ SystemMessages(h) = 1 => gwReq[h][1].Role = "system"
         /\ IsNewUserMessage(h, gwReq[h][Len(gwReq[h])])

\* C20 amended: the same under a history limit of one or more; under a limit of
\* zero the new user message is trimmed away before the request is built and
\* the gateway gets the optional system prompt alone.
C20_ClearThenRespondWithinLimit ==
  \A h \in Handlers :
    /\ ClearsCurrentChat(h)
    /\ RespondsAfterClear(h) =>
         /\ SystemMessages(h) = 1 => gwReq[h][1].Role = "system"
         /\ IF limit >= 1
            THEN /\ Len(gwReq[h]) = SystemMessages(h) + 1
                 /\ IsNewUserMessage(h, gwReq[h][Len(gwReq[h])])
            ELSE Len(gwReq[h]) = SystemMessages(h)

\* A chat that held messages was cleared, and the next request carried the
\* system prompt and the new user message only.
C20_Witness ==
  \E h \in Handlers :
    /\ RespondsAfterClear(h) /\ limit >= 1
    /\ prevCall[h].err = "none"
    /\ Len(gwReq[h]) = 2 /\ gwReq[h][1].Role = "system" /\ gwReq[h][2].Role = "user"
    /\ gwReq[h][2].Content = txt[h]

\* ------------------------------------------- the pending-command protocol
TagCommands == {c \in Commands : PendingTag(c) # ""}

\* The handler has finished the update it was given.
Finished(h) == pc[h] = "done"

\* The update before this one was a tag-setting command that handleCommand
\* handled; TagBefore is the tag it set.
AfterTagCommand(h) ==
  /\ Len(prevUpdate[h].input) = 1 /\ prevUpdate[h].input[1] \in TagCommands
  /\ prevUpdate[h].route = "command"
TagBefore(h) == PendingTag(prevUpdate[h].input[1])

\* The user as GetOrCreateUser loaded or created it, up to RequestTime, for an
\* update that made no engine call of its own after that.
Loaded(h) ==
  IF pre[h].db = NoDoc THEN NewUser(TheUserID, txt[h], 0)
  ELSE [FromDoc(pre[h].db) EXCEPT !.UserName = txt[h]]

PropertyOf(tag) ==
  CASE tag = "set_prompt" -> "Prompt"
    [] tag = "set_greeting" -> "Greeting"
    [] tag = "set_character_name" -> "CharacterName"
    [] tag = "set_user_name" -> "UserName"
    [] OTHER -> "UserDescription"

\* The text of the update went to the update the tag selects, as its value.
RoutedToUpdate(h, tag) ==
  /\ route[h] = "pending" /\ gwCalls[h] = 0
  /\ IF tag = "switch_character"
     THEN LET n == Atoi(input[h]) IN
          IF ~n.err /\ n.val > 0 /\ n.val <= Len(usr[h].Characters)
          THEN /\ op[h] = "ChangeCurrentCharacter"
               /\ err[h] = "none" => /\ usr[h].CurrentCharacterID = n.val - 1
                                     /\ db.CurrentCharacterID = n.val - 1
          ELSE op[h] = "none" /\ sent[h] = <<InvalidNumberText>>
     ELSE LET prop == PropertyOf(tag)
              want == IF prop \in {"Prompt", "UserDescription", "Greeting"}
                      THEN Expanded(input[h], Loaded(h))
                      ELSE input[h]
          IN /\ op[h] = prop
             /\ FieldOf(prop, usr[h]) = want
             /\ err[h] = "none" => FieldOf(prop, FromDoc(db)) = want

\* C12 as stated: after a tag-setting command was handled, the next free-text
\* message of the user goes to the update the tag selects with the text as its
\* value, the gateway is not called, and afterwards pendingCommand is empty in
\* memory and in the stored document.
C12_PendingConsumed ==
  \A h \in Handlers :
    Finished(h) /\ AfterTagCommand(h) /\ ~IsCommand(input[h]) =>
      /\ RoutedToUpdate(h, TagBefore(h))
      /\ usr[h].PendingCommand = ""
      /\ StoredPending(db) = ""

\* C12 amended: the tag reaches the stored document when the command's save of
\* it succeeds (and at worst with the save that follows its sent prompt); the
\* next free-text message, once the user is loaded, goes to the update of the
\* stored tag with the text as its value and without a gateway call, and then
\* pendingCommand is empty in memory, and in the stored document unless two
\* collaborator calls failed; with no tag stored the message goes to the model,
\* and with a failed load it is answered with the fetch error.
C12_PendingConsumedWhenStored ==
  \A h \in Handlers :
    Finished(h) /\ AfterTagCommand(h) /\ ~IsCommand(input[h]) =>
      /\ prevUpdate[h].pending = TagBefore(h)
      /\ prevUpdate[h].stored \in {"", TagBefore(h)}
      /\ prevUpdate[h].err = "none" => prevUpdate[h].stored = TagBefore(h)
      /\ \/ route[h] = "load_error" /\ sent[h] = <<FetchErrorText>>
         \/ /\ prevUpdate[h].stored = TagBefore(h)
            /\ RoutedToUpdate(h, TagBefore(h))
            /\ usr[h].PendingCommand = ""
            /\ StoredPending(db) = "" \/ faults >= 2
         \/ /\ prevUpdate[h].stored = ""
            /\ route[h] = "model" /\ op[h] = "GetModelResponseForUser"
            /\ usr[h].PendingCommand = ""

\* /setprompt was handled, and the text after it became the prompt, in memory
\* and in the stored document, whose pendingCommand is empty again.
C12_Witness ==
  \E h \in Handlers :
    /\ Finished(h) /\ prevUpdate[h].input = <<"/setprompt">> /\ input[h] = <<"hi">>
    /\ route[h] = "pending" /\ op[h] = "Prompt" /\ err[h] = "none" /\ gwCalls[h] = 0
    /\ CurrentCharacter(usr[h]).Prompt = <<"hi">>
    /\ usr[h].PendingCommand = ""
    /\ db = ToDoc(usr[h])

\* The handler has finished a message whose text starts with "/", for a user
\* it could load.
CommandDone(h) == Finished(h) /\ IsCommand(input[h]) /\ route[h] # "load_error"

\* The field the tag selects is in u as it is in v.
SameTagged(tag, u, v, p) ==
  CASE tag = "set_prompt" -> u.Characters[p].Prompt = v.Characters[p].Prompt
    [] tag = "set_greeting" -> u.Characters[p].Greeting = v.Characters[p].Greeting
    [] tag = "set_character_name" -> u.Characters[p].Name = v.Characters[p].Name
    [] tag = "set_user_name" -> u.UserName = v.UserName
    [] tag = "set_user_description" -> u.UserDescription = v.UserDescription
    [] OTHER -> TRUE

\* The update made no property update and no character switch.
NoTagUpdate(h) ==
  /\ route[h] \in {"command", "unknown_command"}
  /\ op[h] \in {"none", "AddCharacter", "SaveUser", "ClearChatHistory"}
  /\ gwCalls[h] = 0
  /\ SameTagged(prevUpdate[h].stored, usr[h], Loaded(h), CurrentPos(Loaded(h)))
  /\ input[h] # <<"/newchar">> => usr[h].CurrentCharacterID = Loaded(h).CurrentCharacterID

\* C13 as stated, for the user in memory and the user in the store: after a
\* message starting with "/" was handled, pendingCommand is empty or the tag
\* of that command, and no update was made for the tag pending before.
C13_CommandSupersedes ==
  \A h \in Handlers :
    CommandDone(h) =>
      /\ usr[h].PendingCommand = PendingTag(input[h][1])
      /\ StoredPending(db) \in {"", PendingTag(input[h][1])}
      /\ NoTagUpdate(h)

\* C13 amended: in memory pendingCommand is the tag of that command (empty for
\* a command that sets none) and no update is made for the tag pending
\* before; the stored pendingCommand is the same when no collaborator call
\* failed, and otherwise may also be empty or still the tag stored before.
C13_CommandSupersedesInMemory ==
  \A h \in Handlers :
    CommandDone(h) =>
      /\ usr[h].PendingCommand = PendingTag(input[h][1])
      /\ NoTagUpdate(h)
      /\ StoredPending(db) \in {"", PendingTag(input[h][1]), prevUpdate[h].stored}
      /\ faults = 0 => StoredPending(db) = PendingTag(input[h][1])

\* /setgreeting arrived while set_prompt was stored: the stored tag is now
\* set_greeting and the prompt is as it was.
C13_Witness ==
  \E h \in Handlers :
    /\ CommandDone(h) /\ input[h] = <<"/setgreeting">>
    /\ prevUpdate[h].input = <<"/setprompt">> /\ prevUpdate[h].stored = "set_prompt"
    /\ usr[h].PendingCommand = "set_greeting"
    /\ StoredPending(db) = "set_greeting"
    /\ CurrentCharacter(usr[h]).Prompt = CurrentCharacter(Loaded(h)).Prompt

\* The later free-text message has arrived after the command and the racing
\* message were handled, and has been routed.
LaterRouted == clock = MaxEvents + 1 /\ route[Other] # "none"

\* handleCommand completed for the tag-setting command: its save of the tag
\* succeeded and its prompt was sent.
TagCommandCompleted ==
  /\ pc[Caller] = "done" /\ route[Caller] = "command" /\ err[Caller] = "none"
  /\ usr[Caller].PendingCommand = PendingTag(input[Caller][1])
  /\ sent[Caller] = <<TagPrompt(input[Caller][1])>>

\* C11: the later message is routed by the pendingCommand stored when it
\* arrives, to the model when that is empty and to the tag's update otherwise;
\* a tag whose command completed is found empty only after the racing message
\* consumed it or, having loaded the user without it, saved over it.
C11_RoutedByStoredTag ==
  LaterRouted =>
    /\ route[Other] \in {"model", "pending", "load_error"}
    /\ route[Other] = "model" => prevUpdate[Other].stored = ""
    /\ route[Other] = "pending" => prevUpdate[Other].stored = PendingTag(input[Caller][1])
    /\ TagCommandCompleted /\ prevUpdate[Other].stored = "" =>
         /\ prevUpdate[Other].route \in {"model", "pending"}
         /\ prevUpdate[Other].pending = ""

\* No collaborator call failed, /setprompt completed with its tag saved, the
\* racing message went to the model although that tag was set, and the later
\* message finds no tag stored and goes to the model too.
C11_Witness ==
  /\ LaterRouted /\ faults = 0
  /\ TagCommandCompleted /\ input[Caller] = <<"/setprompt">>
  /\ prevUpdate[Other].route = "model" /\ prevUpdate[Other].err = "none"
  /\ prevUpdate[Other].stored = ""
  /\ route[Other] = "model" /\ op[Other] = "GetModelResponseForUser"
  /\ gwCalls[Other] = 1

\* ---------------------------------------------- the entity functions
\* C21 as stated: GetCurrentCharacter on a user whose CurrentCharacterID is
\* outside the characters leaves the id at 0 and the characters non-empty, and
\* a second call changes nothing.
C21_RepairsIndex ==
  \A h \in Handlers :
    Called(h, "GetCurrentCharacter") /\ ~IndexInRange(pre[h].usr) =>
      /\ usr[h].CurrentCharacterID = 0
      /\ Len(usr[h].Characters) > 0
      /\ GetCurrentCharacter(usr[h]) = usr[h]

Tokens(text) == {text[i] : i \in 1..Len(text)}

\* The text with each {{user}} in it replaced by forUser and each {{char}} in
\* it by forChar, position by position: nothing put in is looked at again.
RECURSIVE Substituted(_, _, _)
Substituted(text, forUser, forChar) ==
  IF text = <<>> THEN <<>>
  ELSE (CASE Head(text) = UserTok -> forUser
          [] Head(text) = CharTok -> forChar
          [] OTHER -> <<Head(text)>>) \o Substituted(Tail(text), forUser, forChar)

NameBefore(h) == CurrentCharacter(pre[h].usr).Name

C23_SinglePass ==
  \A h \in Handlers :
    Called(h, "ReplacePlaceholders") /\ UserTok \in Tokens(txt[h])
      /\ CharTok \in Tokens(pre[h].usr.UserName) =>
        CharTok \in Tokens(reply[h])

\* C23 amended: the {{user}} pass runs first and the {{char}} pass runs over
\* its result, so a {{char}} that came in with the user name is replaced like
\* any other and the result holds {{char}} only if the character's name does;
\* what the {{char}} pass puts in is not scanned again, so a character name
\* that holds a token is in the result as it is.
C23_CharPassScansUserName ==
  \A h \in Handlers :
    Called(h, "ReplacePlaceholders") =>
      /\ CharTok \notin Tokens(NameBefore(h)) => CharTok \notin Tokens(reply[h])
      /\ txt[h] = <<CharTok>> => reply[h] = NameBefore(h)
      /\ txt[h] = <<UserTok>> =>
           reply[h] = ReplaceAll(pre[h].usr.UserName, CharTok, NameBefore(h))
      /\ UserTok \in Tokens(txt[h]) /\ UserTok \in Tokens(pre[h].usr.UserName) =>
           UserTok \in Tokens(reply[h])

\* The user name is "{{char}}", the character's name "Bob": the {{user}} of
\* the text came out as "Bob".
C23_Witness ==
  \E h \in Handlers :
    /\ Called(h, "ReplacePlaceholders") /\ txt[h] = <<UserTok>>
    /\ pre[h].usr.UserName = <<CharTok>> /\ NameBefore(h) = <<"Bob">>
    /\ reply[h] = <<"Bob">>

\* C24 as stated: in the messages for the gateway, the content of every user
\* and assistant message of the chat, appended in this process or decoded from
\* the store, went through the user's substitution and then the character's,
\* and the content of a system message through the user's only.
C24_ExpandedTwice ==
  \A h \in Handlers :
    Called(h, "applyPlaceholdersToMessages") =>
      /\ Len(gwReq[h]) = Len(modelMsgs[h])
      /\ \A i \in 1..Len(modelMsgs[h]) :
           LET once == UserReplacePlaceholders(pre[h].usr, modelMsgs[h][i].Content)
               twice == CharReplacePlaceholders(CurrentCharacter(pre[h].usr), once)
           IN gwReq[h][i].Content = IF modelMsgs[h][i].Role # "system" THEN twice ELSE once

\* C26 as stated: GetModelResponse returns the content of the first choice
\* when the endpoint answers with a 2xx status and at least one choice, and
\* fails when the status is not 2xx or there is no choice.
C26_FirstChoiceOn2xx ==
  \A h \in Handlers :
    Called(h, "GetModelResponse") /\ gwResp[h].sent =>
      IF gwResp[h].status \in 200..299 /\ Len(gwResp[h].choices) > 0
      THEN err[h] = "none" /\ reply[h] = gwResp[h].choices[1]
      ELSE err[h] = "model" /\ reply[h] = <<>>

\* C26 amended: GetModelResponse returns the content of the first choice when
\* the endpoint answers with status 200 and at least one choice, and fails
\* with an empty string when the exchange fails, when the status is anything
\* but 200, other 2xx statuses included, or when there is no choice.
C26_FirstChoiceOn200 ==
  \A h \in Handlers :
    Called(h, "GetModelResponse") =>
      IF gwResp[h].sent /\ gwResp[h].status = 200 /\ Len(gwResp[h].choices) > 0
      THEN err[h] = "none" /\ reply[h] = gwResp[h].choices[1]
      ELSE err[h] = "model" /\ reply[h] = <<>>

\* Status 200 with two choices gave the first, after a call that failed.
C26_Witness ==
  \E h \in Handlers :
    /\ Called(h, "GetModelResponse")
    /\ gwResp[h] = [sent |-> TRUE, status |-> 200, choices |-> <<<<"sure">>, <<"no">>>>]
    /\ err[h] = "none" /\ reply[h] = <<"sure">>
    /\ prevCall[h].op = "GetModelResponse" /\ prevCall[h].err = "model"

\* ------------------------------------------------ one message, one answer
\* C25: a call of GetModelResponseForUser makes at most one gateway request,
\* and exactly one when its first persist succeeded; an update that is a
\* command or that answers a pending command makes none.
C25_OneGatewayCall ==
  \A h \in Handlers :
    /\ gwCalls[h] <= 1
    /\ Responding(h) /\ Returned(h) =>
         gwCalls[h] = (IF FirstPersistFailed(h) THEN 0 ELSE 1)
    /\ route[h] \in {"command", "unknown_command", "pending", "load_error"} =>
         gwCalls[h] = 0 /\ ~Responding(h)
    /\ IsCommand(input[h]) => gwCalls[h] = 0
    /\ route[h] = "model" => Responding(h) /\ ~IsCommand(input[h])

\* A free-text message after a command: the command made no gateway request,
\* the message made one.
C25_Witness ==
  \E h \in Handlers :
    /\ Finished(h) /\ route[h] = "model" /\ gwCalls[h] = 1 /\ err[h] = "none"
    /\ prevUpdate[h].route = "command"

\* C30 as stated: by the time its handler ends, every inbound message, whether
\* a command, another text starting with "/", an answer to a pending command
\* or a question for the model, has led to exactly one sendMessage of a reply.
C30_OneReply ==
  \A h \in Handlers : Finished(h) => Len(sent[h]) = 1

\* ------------------------------------- what every user value satisfies
\* The user values there are: the stored document and what each handler holds.
UserValues ==
  (IF db = NoDoc THEN {} ELSE {db}) \cup ({usr[h] : h \in Handlers} \ {NoUser})

\* C27: the stored document, and every user a handler holds, has at least one
\* character and a CurrentCharacterID that is an index into its characters,
\* whatever the interleaving of the handlers and whichever saves fail.
C27_CharactersWellFormed ==
  \A u \in UserValues : Len(u.Characters) >= 1 /\ IndexInRange(u)

\* One handler switched to the first of two characters while the other added
\* a third and saved last.
C27_Witness ==
  \E h, g \in Handlers :
    /\ op[h] = "ChangeCurrentCharacter" /\ err[h] = "none" /\ route[h] = "pending"
    /\ Len(usr[h].Characters) = 2 /\ usr[h].CurrentCharacterID = 0
    /\ op[g] = "AddCharacter" /\ err[g] = "none"
    /\ Len(db.Characters) = 3 /\ db.CurrentCharacterID = 2

\* C28: every chat of the stored document has at most limit messages,
\* whatever the interleaving of the handlers: a chat is trimmed before it is
\* saved.
C28_StoredChatsBounded ==
  db # NoDoc => \A i \in 1..Len(db.Characters) : Len(db.Characters[i].Chat) <= limit

\* Two handlers appended to a chat that was at the limit, and each saved it at
\* the limit.
C28_Witness ==
  /\ limit >= 1
  /\ \A h \in Handlers :
       /\ Responding(h) /\ FirstPersistDone(h) /\ ~FirstPersistFailed(h)
       /\ Len(ChatBefore(h)) = limit
       /\ Len(ChatNow(h)) = limit
  /\ Len(db.Characters[1].Chat) = limit

\* C29: in the stored document and in every user a handler holds, the ID of
\* each character is its position (from 0), so no two characters of a user
\* share an ID, also when concurrent AddCharacter calls lose an addition.
C29_IDsArePositions ==
  \A u \in UserValues : \A i \in 1..Len(u.Characters) : u.Characters[i].ID = i - 1

\* Two handlers each added a second character to the one they loaded; the
\* stored document holds two characters, not three.
C29_Witness ==
  /\ \A h \in Handlers :
       /\ Finished(h) /\ op[h] = "AddCharacter" /\ err[h] = "none"
       /\ Len(usr[h].Characters) = 2 /\ usr[h].Characters[2].ID = 1
  /\ Len(db.Characters) = 2 /\ db.Characters[2].ID = 1

\* ---------------------------------------------------------------- C31
\* The errors an engine operation returns, as the log prints them.
ErrorTexts == {"load", "persist", "model", "property", "index"}

\* The fixed texts the controller sends in place of a result.
Apologies ==
  {FetchErrorText, ModelErrorText, PendingErrorText, <<"Failed to add new character.">>,
   <<"Failed to clear chat history.">>}

\* The apology the controller has for the operation an update was routed to.
ApologyFor(o) ==
  CASE o = "GetOrCreateUser" -> FetchErrorText
    [] o = "GetModelResponseForUser" -> ModelErrorText
    [] o = "AddCharacter" -> <<"Failed to add new character.">>
    [] o = "ClearChatHistory" -> <<"Failed to clear chat history.">>
    [] OTHER -> PendingErrorText

\* The update is handled and the operation it was routed to returned an
\* error; the save of a pending tag is the controller's own bookkeeping.
RoutedFailed(h) == Finished(h) /\ err[h] # "none" /\ op[h] # "SaveUser"

\* C31 (as stated): whenever an engine operation returned an error to the
\* controller, every text sent for the update is one of its fixed apologies.
C31_EveryErrorApologised ==
  \A h \in Handlers :
    Finished(h) /\ err[h] # "none" =>
      /\ sent[h] # <<>>
      /\ \A i \in 1..Len(sent[h]) : sent[h][i] \in Apologies

\* C31: when the operation an update was routed to (GetOrCreateUser,
\* GetModelResponseForUser, UpdateUserProperty, ChangeCurrentCharacter,
\* AddCharacter, ClearChatHistory) returned an error, the handler finishes
\* and the one text it sent is the fixed apology for that operation; when
\* only the save of a pending tag failed the ordinary prompt is sent; and no
\* text sent to the user ever contains the text of an error.
C31_RoutedErrorApologised ==
  \A h \in Handlers :
    /\ \A i \in 1..Len(sent[h]) : Tokens(sent[h][i]) \cap ErrorTexts = {}
    /\ RoutedFailed(h) => sent[h] = <<ApologyFor(op[h])>>
    /\ Finished(h) /\ err[h] # "none" /\ op[h] = "SaveUser" =>
         sent[h] = <<TagPrompt(input[h][1])>>

\* A property update failed and the user was sent the fixed apology.
C31_Witness ==
  \E h \in Handlers :
    /\ RoutedFailed(h) /\ route[h] = "pending" /\ err[h] = "persist"
    /\ sent[h] = <<PendingErrorText>>

\* ---------------------------------------------------------------- C32
\* The model query of the update failed and the handler has finished.
Apologised(h) == Finished(h) /\ route[h] = "model" /\ err[h] # "none"

\* The apology was sent and the save recording its message id succeeded.
Remembered(h) ==
  /\ usr[h].LastMessageID # 0
  /\ db # NoDoc /\ db.LastMessageID = usr[h].LastMessageID

\* The document the failed call left behind.
LeftByFailedCall(h) == IF FirstPersistFailed(h) THEN pre[h].db ELSE StoredAtStep3(h)

\* C32: after GetModelResponseForUser returned an error the controller sends
\* the model apology and saves the user value the call worked on to record
\* LastMessageID. That value still holds what the call appended (the user
\* message, and the assistant reply when the second persist failed), trimmed
\* to the limit; when the save succeeds the stored document is that value, so
\* the stored chat holds those messages; when the send or the save fails the
\* document stays as the failed call left it.
C32_ApologySaveMakesDurable ==
  \A h \in Handlers :
    Apologised(h) =>
      /\ sent[h] = <<ModelErrorText>>
      /\ ChatNow(h) = KeepNewest(ChatBefore(h) \o AppendedSoFar(h), limit)
      /\ IF Remembered(h)
         THEN db = ToDoc(usr[h]) /\ StoredChat(h) = DocsOf(ChatNow(h))
         ELSE db = LeftByFailedCall(h)

\* The second persist failed, and the save after the apology stored the
\* assistant reply the failed call had appended.
C32_Witness ==
  \E h \in Handlers :
    /\ Apologised(h) /\ Remembered(h) /\ SecondPersistFailed(h) /\ limit >= 2
    /\ StoredChat(h)[Len(StoredChat(h))] = MessageToDoc(AssistantMessage(h))
    /\ StoredChat(h)[Len(StoredChat(h)) - 1] = MessageToDoc(UserMessage(h))
    /\ pre[h].db # db

\* The first persist failed, and the save after the apology stored the user
\* message.
C32_WitnessFirst ==
  \E h \in Handlers :
    /\ Apologised(h) /\ Remembered(h) /\ FirstPersistFailed(h) /\ limit >= 1
    /\ StoredChat(h)[Len(StoredChat(h))] = MessageToDoc(UserMessage(h))

\* ---------------------------------------------------------------- C33
\* GetModelResponseForUser has saved the user message and built the request.
RequestBuilt(h) == Responding(h) /\ pc[h] \in {"resp_finish", "ret"} /\ gwCalls[h] = 1

\* C33: building the request for the model leaves the history alone. Once
\* GetModelResponseForUser has built it, and when it has returned, the chat
\* in memory is the chat before the call followed by the messages the call
\* appended, each with the content and role it was appended with (a
\* placeholder in the user's text is still a placeholder), trimmed to the
\* limit; the stored chat is that chat after each persist that succeeded;
\* the expansion is found in the request only.
C33_HistoryKeptAsAppended ==
  \A h \in Handlers :
    RequestBuilt(h) =>
      /\ ChatNow(h) = KeepNewest(ChatBefore(h) \o AppendedSoFar(h), limit)
      /\ (pc[h] = "resp_finish" \/ (Returned(h) /\ err[h] = "none")) =>
           StoredChat(h) = DocsOf(ChatNow(h))
      /\ gwReq[h] = [i \in 1..Len(modelMsgs[h]) |->
                      ApiMessage(applyPlaceholdersToMessages(modelMsgs[h], usr[h])[i])]
      /\ modelMsgs[h] =
           GetChatMessagesForModel(
             [CurrentCharacter(usr[h]) EXCEPT
                !.Chat = KeepNewest(ChatBefore(h) \o <<UserMessage(h)>>, limit)])

\* A text with a placeholder was answered: the chat in memory and the stored
\* chat hold it as typed, the request held it expanded.
C33_Witness ==
  \E h \in Handlers :
    /\ RequestBuilt(h) /\ Returned(h) /\ err[h] = "none" /\ limit >= 2
    /\ UserTok \in Tokens(txt[h])
    /\ ChatNow(h)[Len(ChatNow(h)) - 1] = NewChatMessage(UserRole, txt[h])
    /\ StoredChat(h)[Len(StoredChat(h)) - 1] = [Role |-> "user", Content |-> txt[h]]
    /\ gwReq[h][Len(gwReq[h])].Content # txt[h]
    /\ UserTok \notin Tokens(gwReq[h][Len(gwReq[h])].Content)

\* ---------------------------------------------------------------- C34
\* The integer a text is the decimal numeral of, if it is one.
IsDecimal(text) == text \in {<<"0">>, <<"1">>, <<"2">>, <<"3">>, <<"+1">>, <<"-1">>}
DecimalOf(text) ==
  CASE text = <<"0">> -> 0 [] text = <<"1">> -> 1 [] text = <<"2">> -> 2
    [] text = <<"3">> -> 3 [] text = <<"+1">> -> 1 [] OTHER -> 0 - 1

\* A free text was handled for a user loaded with the tag switch_character.
SwitchAnswered(h) ==
  /\ Finished(h) /\ route[h] = "pending"
  /\ Loaded(h).PendingCommand = "switch_character"

\* The text names one of the characters of the loaded user.
NamesCharacter(h) ==
  /\ IsDecimal(input[h])
  /\ 1 <= DecimalOf(input[h]) /\ DecimalOf(input[h]) <= Len(Loaded(h).Characters)

\* C34: with switch_character pending, a free text that is a decimal integer
\* n with 1 <= n <= len(Characters) makes the handler call
\* ChangeCurrentCharacter, which sets CurrentCharacterID of the user value
\* to n - 1 (also when its save fails); for any other text
\* ChangeCurrentCharacter is not called, CurrentCharacterID and the stored
\* document's characters stay as loaded and the fixed "invalid number" text
\* is sent. In every case, a failed update included, PendingCommand of the
\* user value is empty once the message is handled, and so is the stored one
\* when the save that follows the sent answer succeeded.
C34_SwitchByNumber ==
  \A h \in Handlers :
    SwitchAnswered(h) =>
      /\ IF NamesCharacter(h)
         THEN /\ op[h] = "ChangeCurrentCharacter"
              /\ usr[h].CurrentCharacterID = DecimalOf(input[h]) - 1
              /\ err[h] = "none" => sent[h] =
                   <<(<<"Switched to character: ">>
                      \o Loaded(h).Characters[DecimalOf(input[h])].Name)>>
         ELSE /\ op[h] # "ChangeCurrentCharacter"
              /\ usr[h].CurrentCharacterID = Loaded(h).CurrentCharacterID
              /\ db.CurrentCharacterID = pre[h].db.CurrentCharacterID
              /\ sent[h] = <<InvalidNumberText>>
      /\ usr[h].PendingCommand = ""
      /\ Remembered(h) => StoredPending(db) = ""

\* The user typed 1 with the second of two characters current: the first is
\* current now, in memory and in the stored document.
C34_Witness ==
  \E h \in Handlers :
    /\ SwitchAnswered(h) /\ input[h] = <<"1">> /\ err[h] = "none"
    /\ Len(Loaded(h).Characters) = 2 /\ Loaded(h).CurrentCharacterID = 1
    /\ usr[h].CurrentCharacterID = 0 /\ db.CurrentCharacterID = 0
    /\ usr[h].PendingCommand = "" /\ StoredPending(db) = ""

\* The user typed 3 with two characters: nothing was switched.
C34_WitnessInvalid ==
  \E h \in Handlers :
    /\ SwitchAnswered(h) /\ input[h] = <<"3">>
    /\ Len(Loaded(h).Characters) = 2 /\ usr[h].CurrentCharacterID = 1
    /\ usr[h].PendingCommand = ""

\* The save of ChangeCurrentCharacter failed: the tag is cleared all the same.
C34_WitnessFailed ==
  \E h \in Handlers :
    /\ SwitchAnswered(h) /\ NamesCharacter(h) /\ err[h] = "persist"
    /\ usr[h].PendingCommand = "" /\ sent[h] = <<PendingErrorText>>

\* ---------------------------------------------------------------- C35
Exited == main.at = "exited"
AllConfigSet == main.set = ConfigNames
NothingHandled == clock = 0 /\ \A h \in Handlers : pc[h] = "idle" /\ sent[h] = <<>>

C35_WitnessConfig ==
  /\ Exited /\ main.cause = "LLAMA_BASE_URL" /\ main.set = ConfigNames \ {"LLAMA_BASE_URL"}

\* A collaborator call failed while updates were handled; the process runs.
C35_WitnessRuntime ==
  /\ main.at = "polling" /\ faults = MaxFaults
  /\ \E h \in Handlers : Finished(h) /\ err[h] # "none"

====
